---- MODULE Spec2Model ----
(***************************************************************************)
(* Model of the charta-compiler front end: the position bookkeeping of the *)
(* lexer driver (Parser::new), the recursive-descent parser (parser.rs),   *)
(* the two-pass name resolver (resolver.rs), the emitter (emitter.rs) and  *)
(* the pipeline of compile_command (cli.rs).                               *)
(*                                                                         *)
(* A token is a record [tok, str, num, line, col]: the Token variant, its  *)
(* String/Identifier payload, its Number payload, and the (line, column)   *)
(* Parser::new stored with it.  A lexeme is what the logos lexer hands to  *)
(* Parser::new for one match: the token plus the length of the matched     *)
(* slice and the number of newlines inside it.                             *)
(***************************************************************************)
EXTENDS Integers, Sequences, FiniteSets, TLC

VARIABLES tokens, line, column, pos, stage, module, error, ir, written, hasher,
          source, offset

vars == <<tokens, line, column, pos, stage, module, error, ir, written, hasher,
          source, offset>>

-----------------------------------------------------------------------------
(* Bounds of the model.                                                    *)

\* Spec: the most tokens the lexer pushes.
MaxTokens == 7
\* SpecGuard: the most tokens the lexer pushes after `module m rung r : when`.
MaxGuardTokens == 8
\* SpecResolve: the module handed to resolve_names has at most MaxDecls
\* signals, MaxDecls coils and MaxDecls rungs, and over all its rungs at most
\* MaxGuardNodes guard nodes and MaxActions actions.
MaxDecls == 2
MaxGuardNodes == 3
MaxActions == 1
\* SpecEmit: the module handed to emit_ir has at most MaxEmitItems
\* declarations over its five lists.
MaxEmitItems == 3
\* SpecCompile: the source has at most MaxSourceDecls clauses after
\* `module m`.
MaxSourceDecls == 4
\* SpecString: the source text has at most MaxChars characters.
MaxChars == 5
\* SpecCursor: the token list is cut out of a source of at most
\* MaxCursorDecls clauses after `module m`.
MaxCursorDecls == 1

-----------------------------------------------------------------------------
(* Lexemes: the tokens of parser.rs:8-104 with the slice logos matched.    *)

Kw(t, n) == [tok |-> t, str |-> "", num |-> 0, len |-> n, nl |-> 0]
Ident(s) == [tok |-> "Identifier", str |-> s, num |-> 0, len |-> 1, nl |-> 0]

\* The parameterless tokens and the length of their text.
KwModule     == Kw("Module", 6)
KwSignal     == Kw("Signal", 6)
KwCoil       == Kw("Coil", 4)
KwRung       == Kw("Rung", 4)
KwBlock      == Kw("Block", 5)
KwNetwork    == Kw("Network", 7)
KwWhen       == Kw("When", 4)
KwThen       == Kw("Then", 4)
KwEnergise   == Kw("Energise", 8)
KwDeEnergise == Kw("DeEnergise", 11)
KwNO         == Kw("NO", 2)
KwNC         == Kw("NC", 2)
KwAnd        == Kw("And", 3)
KwOr         == Kw("Or", 2)
KwNot        == Kw("Not", 3)
KwContext    == Kw("Context", 7)
KwTrue       == Kw("True", 4)
KwColon      == Kw("Colon", 1)
KwComma      == Kw("Comma", 1)
KwLParen     == Kw("LParen", 1)
KwRParen     == Kw("RParen", 1)
\* "latching": an identifier parse_coil treats as a modifier.
IdLatching   == [tok |-> "Identifier", str |-> "latching", num |-> 0, len |-> 8, nl |-> 0]
\* The number 7.
Num7         == [tok |-> "Number", str |-> "", num |-> 7, len |-> 1, nl |-> 0]
\* The literal "s", and a literal whose body holds one newline ("p<LF>q").
StrS         == [tok |-> "String", str |-> "s", num |-> 0, len |-> 3, nl |-> 0]
StrNL        == [tok |-> "String", str |-> "p\nq", num |-> 0, len |-> 5, nl |-> 1]

\* Parser::new, the Ok branch of the loop body: the token is stored with the
\* column before it and the line after the newlines inside it.
LexPosition(lx, ln, cl) ==
    [tok  |-> [tok |-> lx.tok, str |-> lx.str, num |-> lx.num,
               line |-> ln + lx.nl, col |-> cl],
     line |-> ln + lx.nl,
     column |-> IF lx.nl > 0 THEN 1 ELSE cl + lx.len]

-----------------------------------------------------------------------------
(* The lexer over characters: the rules Token::String (parser.rs:66) and   *)
(* Token::Identifier on a source of quotes, backslashes and the letter a.  *)

Quote     == "\""
Backslash == "\\"
Letter    == "a"
Alphabet  == {Quote, Backslash, Letter}

\* The text of a sequence of characters.
RECURSIVE Text(_)
Text(chars) == IF chars = <<>> THEN "" ELSE Head(chars) \o Text(Tail(chars))

\* The regex "([^"\\]|\\")*" of Token::String after its opening quote: src[j]
\* is the next character of the body.  ok with `end` the index of the
\* closing quote, or no match with `end` the last character read.
RECURSIVE StringBody(_, _)
StringBody(src, j) ==
    IF j > Len(src) THEN [ok |-> FALSE, end |-> Len(src)]
    ELSE IF src[j] = Quote THEN [ok |-> TRUE, end |-> j]
    ELSE IF src[j] = Backslash
         THEN IF j < Len(src) /\ src[j + 1] = Quote
                 THEN StringBody(src, j + 2)
                 ELSE [ok |-> FALSE, end |-> IF j < Len(src) THEN j + 1 ELSE j]
    ELSE StringBody(src, j + 1)

\* The regex [a-zA-Z_][a-zA-Z0-9_]* of Token::Identifier: the index of the
\* last character of the run of letters that starts at src[j].
RECURSIVE IdentifierEnd(_, _)
IdentifierEnd(src, j) ==
    IF j < Len(src) /\ src[j + 1] = Letter THEN IdentifierEnd(src, j + 1) ELSE j

\* str::replace: every occurrence of `from`, left to right, without overlap.
RECURSIVE replace(_, _, _)
replace(s, from, to) ==
    IF Len(s) < Len(from) THEN s
    ELSE IF SubSeq(s, 1, Len(from)) = from
         THEN to \o replace(SubSeq(s, Len(from) + 1, Len(s)), from, to)
         ELSE <<Head(s)>> \o replace(Tail(s), from, to)

\* The callback of Token::String (parser.rs:66): the slice without its two
\* quotes, replace("\\\"", "\"") and then replace("\\\\", "\\").
StringValue(slice) ==
    replace(replace(SubSeq(slice, 2, Len(slice) - 1),
                    <<Backslash, Quote>>, <<Quote>>),
            <<Backslash, Backslash>>, <<Backslash>>)

\* The characters of the skip rules (parser.rs:6-7).
Newline    == "\n"
Slash      == "/"
Whitespace == {" ", "\t", "\r", Newline}

\* The skip rule //[^\n]*: the index of the last character of the comment
\* whose second slash is src[j].
RECURSIVE CommentEnd(_, _)
CommentEnd(src, j) ==
    IF j < Len(src) /\ src[j + 1] # Newline THEN CommentEnd(src, j + 1) ELSE j

\* The skip rules: the offset at which the lexer stands after the
\* whitespace and the comments that start at offset off.
RECURSIVE SkipEnd(_, _)
SkipEnd(src, off) ==
    IF off < Len(src) /\ src[off + 1] \in Whitespace
    THEN SkipEnd(src, off + 1)
    ELSE IF off + 1 < Len(src) /\ src[off + 1] = Slash /\ src[off + 2] = Slash
    THEN SkipEnd(src, CommentEnd(src, off + 2))
    ELSE off

\* Mutant of SliceNewlines: the newlines of the text skipped before the
\* slice count too.
SliceNewlinesFromOffset(src, off, start, end) ==
    Cardinality({i \in off + 1 .. end : src[i] = Newline})

\* lexer.slice().matches('\n').count() (parser.rs:125): the slice is
\* src[start + 1 .. end]; off is the offset at which lexer.next() was called.
SliceNewlines(src, off, start, end) ==
    Cardinality({i \in start + 1 .. end : src[i] = Newline})

\* The token the rules match at offset s < Len(src), reached after the skip
\* from offset off: the token with the index `end` of the last character of
\* its slice, or no token, with `end` the last character the lexer read.
TokenAt(src, off, s) ==
    IF src[s + 1] = Letter
    THEN [ok |-> TRUE, none |-> FALSE, start |-> s,
          end |-> IdentifierEnd(src, s + 1),
          lx |-> [tok |-> "Identifier",
                  str |-> Text(SubSeq(src, s + 1, IdentifierEnd(src, s + 1))),
                  num |-> 0, len |-> IdentifierEnd(src, s + 1) - s,
                  nl |-> 0]]
    ELSE IF src[s + 1] = Quote /\ StringBody(src, s + 2).ok
    THEN [ok |-> TRUE, none |-> FALSE, start |-> s,
          end |-> StringBody(src, s + 2).end,
          lx |-> [tok |-> "String",
                  str |-> Text(StringValue(
                              SubSeq(src, s + 1, StringBody(src, s + 2).end))),
                  num |-> 0, len |-> StringBody(src, s + 2).end - s,
                  nl |-> SliceNewlines(src, off, s,
                                       StringBody(src, s + 2).end)]]
    ELSE [ok |-> FALSE, none |-> FALSE, start |-> s,
          end |-> IF src[s + 1] = Quote THEN StringBody(src, s + 2).end
                                        ELSE s + 1,
          lx |-> Kw("None", 0)]

\* lexer.next() at offset off < Len(src): None when only skipped text is
\* left, or what the rules match after the skipped text.
Lexer_next(src, off) ==
    IF SkipEnd(src, off) = Len(src)
    THEN [ok |-> FALSE, none |-> TRUE, start |-> Len(src), end |-> Len(src),
          lx |-> Kw("None", 0)]
    ELSE TokenAt(src, off, SkipEnd(src, off))

-----------------------------------------------------------------------------
(* Parser: cursor primitives.  pos counts the tokens consumed, so the      *)
(* lookahead is toks[pos + 1].                                             *)

NoToken == [tok |-> "None", str |-> "", num |-> 0, line |-> 0, col |-> 0]

\* Parser::peek
peek(toks, p) == IF p < Len(toks) THEN toks[p + 1] ELSE NoToken

\* Mutant of next: the position moves on past the end of the list too.
next_unchecked(toks, p) ==
    [tok |-> IF p < Len(toks) THEN toks[p + 1] ELSE NoToken, pos |-> p + 1]

\* Parser::next: the token (NoToken at the end) and the new position.
next(toks, p) ==
    IF p < Len(toks) THEN [tok |-> toks[p + 1], pos |-> p + 1]
                     ELSE [tok |-> NoToken, pos |-> p]

NoError == [kind |-> "None", line |-> 0, column |-> 0, message |-> <<>>, at |-> 0]
NoVal   == [kind |-> "None"]

\* CompileError::Parse.  `at` is the index (1-based) of the token the failing
\* next() returned, Len + 1 when it returned None: it is not a field of the
\* error, only the model's record of where the mismatch was detected.
ParseError(ln, cl, msg, at) ==
    [kind |-> "Parse", line |-> ln, column |-> cl, message |-> msg, at |-> at]

Ok(p, v)   == [ok |-> TRUE, pos |-> p, val |-> v, err |-> NoError]
Err(p, e)  == [ok |-> FALSE, pos |-> p, val |-> NoVal, err |-> e]

\* Where a failing next() stood: n is the result of next(toks, p).
OffendingAt(toks, n) == IF n.tok.tok = "None" THEN Len(toks) + 1 ELSE n.pos

\* The `_ => return Err(Parse {line: 1, column: 1, message})` paths.
PlaceholderError(toks, n, msg) ==
    Err(n.pos, ParseError(1, 1, <<msg>>, OffendingAt(toks, n)))

\* The pairs the match of Parser::expect lists (parser.rs:162-183).
ExpectMatches ==
    {"Module", "Signal", "Coil", "Rung", "When", "Then", "Energise",
     "DeEnergise", "NO", "NC", "And", "Or", "Not", "Colon", "Comma",
     "LParen", "RParen", "Identifier", "String", "Number", "True", "False"}

\* Parser::expect
expect(toks, p, expected) ==
    LET n == next(toks, p) IN
    IF n.tok.tok # "None"
    THEN IF n.tok.tok = expected /\ expected \in ExpectMatches
         THEN Ok(n.pos, n.tok)
         ELSE Err(n.pos, ParseError(toks[n.pos].line, toks[n.pos].col,
                                    <<"Expected", expected, "found", n.tok.tok>>,
                                    n.pos))
    ELSE IF Len(toks) > 0
         THEN Err(n.pos, ParseError(toks[Len(toks)].line, toks[Len(toks)].col,
                                    <<"Expected", expected, "found end of file">>,
                                    Len(toks) + 1))
         ELSE Err(n.pos, ParseError(1, 1,
                                    <<"Expected", expected, "found end of file">>,
                                    Len(toks) + 1))

-----------------------------------------------------------------------------
(* Parser: expressions, guards, actions.                                   *)

\* The `?` of Rust: `let x = r?; K(x)` returns the error of r, or goes on
\* with its value.
Try(r, K(_)) == IF r.ok THEN K(r) ELSE r

\* Parser::parse_expr
parse_expr(toks, p) ==
    LET n == next(toks, p) IN
    CASE n.tok.tok = "String"     -> Ok(n.pos, [kind |-> "String", str |-> n.tok.str])
      [] n.tok.tok = "Number"     -> Ok(n.pos, [kind |-> "Number", num |-> n.tok.num])
      [] n.tok.tok = "True"       -> Ok(n.pos, [kind |-> "Boolean", b |-> TRUE])
      [] n.tok.tok = "False"      -> Ok(n.pos, [kind |-> "Boolean", b |-> FALSE])
      [] n.tok.tok = "Identifier" -> Ok(n.pos, [kind |-> "Identifier", str |-> n.tok.str])
      [] OTHER -> PlaceholderError(toks, n, "Expected expression")

\* The argument loop shared by contacts and energise actions
\* (parser.rs:454-461, 520-527): `while peek != RParen { push(parse_expr?);
\* if peek == Comma { next } else { break } }`.
RECURSIVE ArgLoop(_, _, _)
ArgLoop(toks, p, args) ==
    IF peek(toks, p).tok = "RParen"
    THEN Ok(p, args)
    ELSE Try(parse_expr(toks, p), LAMBDA e :
           IF peek(toks, e.pos).tok = "Comma"
           THEN ArgLoop(toks, e.pos + 1, Append(args, e.val))
           ELSE Ok(e.pos, Append(args, e.val)))

\* `if peek == LParen { next; <argument loop>; expect(RParen)? }`
ArgList(toks, p) ==
    IF peek(toks, p).tok = "LParen"
    THEN Try(ArgLoop(toks, p + 1, <<>>), LAMBDA a :
         Try(expect(toks, a.pos, "RParen"), LAMBDA r :
           Ok(r.pos, a.val)))
    ELSE Ok(p, <<>>)

Contact(name, ctype, args) ==
    [kind |-> "Contact", name |-> name, contact_type |-> ctype, arguments |-> args]
AndNode(l, r) == [kind |-> "And", left |-> l, right |-> r]
OrNode(l, r)  == [kind |-> "Or", left |-> l, right |-> r]
NotNode(e)    == [kind |-> "Not", expr |-> e]

RECURSIVE parse_guard(_, _)
RECURSIVE OrLoop(_, _, _)
RECURSIVE AndLoop(_, _, _)

\* Parser::parse_guard_primary, the `(` Guard `)` branch.
PrimaryParen(toks, p) ==
    Try(parse_guard(toks, p + 1), LAMBDA g :
    Try(expect(toks, g.pos, "RParen"), LAMBDA r :
      Ok(r.pos, g.val)))

\* Parser::parse_guard_primary, the NO/NC branch.
PrimaryContact(toks, p) ==
    LET k == next(toks, p)
        n == next(toks, k.pos) IN
    IF n.tok.tok # "Identifier"
    THEN PlaceholderError(toks, n, "Expected signal/coil name after NO/NC")
    ELSE Try(ArgList(toks, n.pos), LAMBDA a :
           Ok(a.pos, Contact(n.tok.str, k.tok.tok, a.val)))

\* Mutant of PrimaryBare: the bare identifier is a normally-closed contact.
PrimaryBareNC(toks, p) ==
    LET n == next(toks, p) IN
    IF n.tok.tok # "Identifier"
    THEN PlaceholderError(toks, n, "Expected contact or identifier")
    ELSE Ok(n.pos, Contact(n.tok.str, "NC", <<>>))

\* Parser::parse_guard_primary, the bare identifier branch.
PrimaryBare(toks, p) ==
    LET n == next(toks, p) IN
    IF n.tok.tok # "Identifier"
    THEN PlaceholderError(toks, n, "Expected contact or identifier")
    ELSE Ok(n.pos, Contact(n.tok.str, "NO", <<>>))

\* Parser::parse_guard_primary
parse_guard_primary(toks, p) ==
    IF peek(toks, p).tok = "LParen" THEN PrimaryParen(toks, p)
    ELSE IF peek(toks, p).tok \in {"NO", "NC"} THEN PrimaryContact(toks, p)
    ELSE PrimaryBare(toks, p)

\* Mutant of parse_guard_not: NOT takes the whole guard that follows it.
parse_guard_not_greedy(toks, p) ==
    IF peek(toks, p).tok = "Not"
    THEN Try(parse_guard(toks, p + 1), LAMBDA e : Ok(e.pos, NotNode(e.val)))
    ELSE parse_guard_primary(toks, p)

\* Parser::parse_guard_not
parse_guard_not(toks, p) ==
    IF peek(toks, p).tok = "Not"
    THEN Try(parse_guard_primary(toks, p + 1), LAMBDA e :
           Ok(e.pos, NotNode(e.val)))
    ELSE parse_guard_primary(toks, p)

\* How parse_guard_and folds the next operand into the chain.
FoldAnd(l, r) == AndNode(l, r)

\* The while loop of Parser::parse_guard_and.
AndLoop(toks, p, left) ==
    IF peek(toks, p).tok = "And"
    THEN Try(parse_guard_not(toks, p + 1), LAMBDA r :
           AndLoop(toks, r.pos, FoldAnd(left, r.val)))
    ELSE Ok(p, left)

\* Parser::parse_guard_and
parse_guard_and(toks, p) ==
    Try(parse_guard_not(toks, p), LAMBDA l : AndLoop(toks, l.pos, l.val))

\* Mutant of FoldOr: the chain nests to the right.
FoldOrRight(l, r) ==
    IF l.kind = "Or" THEN OrNode(l.left, OrNode(l.right, r)) ELSE OrNode(l, r)

\* How parse_guard_or folds the next operand into the chain.
FoldOr(l, r) == OrNode(l, r)

\* The while loop of Parser::parse_guard_or.
OrLoop(toks, p, left) ==
    IF peek(toks, p).tok = "Or"
    THEN Try(parse_guard_and(toks, p + 1), LAMBDA r :
           OrLoop(toks, r.pos, FoldOr(left, r.val)))
    ELSE Ok(p, left)

\* Mutant of parse_guard_or: one loop folds AND and OR alike, left to right,
\* with no precedence between them.
RECURSIVE FlatLoop(_, _, _)
FlatLoop(toks, p, left) ==
    IF peek(toks, p).tok \in {"And", "Or"}
    THEN Try(parse_guard_not(toks, p + 1), LAMBDA r :
           FlatLoop(toks, r.pos,
             IF peek(toks, p).tok = "And" THEN AndNode(left, r.val)
                                          ELSE OrNode(left, r.val)))
    ELSE Ok(p, left)
parse_guard_or_flat(toks, p) ==
    Try(parse_guard_not(toks, p), LAMBDA l : FlatLoop(toks, l.pos, l.val))

\* Parser::parse_guard_or
parse_guard_or(toks, p) ==
    Try(parse_guard_and(toks, p), LAMBDA l : OrLoop(toks, l.pos, l.val))

\* Parser::parse_guard
parse_guard(toks, p) == parse_guard_or(toks, p)

ActionRec(atype, coil, args) ==
    [action_type |-> atype, coil |-> coil, arguments |-> args]

\* The loop of Parser::parse_actions.
RECURSIVE ActionLoop(_, _, _)
ActionLoop(toks, p, actions) ==
    LET n == next(toks, p + 1) IN
    CASE peek(toks, p).tok = "Energise" ->
           IF n.tok.tok # "Identifier"
           THEN PlaceholderError(toks, n, "Expected coil name")
           ELSE Try(ArgList(toks, n.pos), LAMBDA a :
                  ActionLoop(toks, a.pos,
                    Append(actions, ActionRec("Energise", n.tok.str, a.val))))
      [] peek(toks, p).tok = "DeEnergise" ->
           IF n.tok.tok # "Identifier"
           THEN PlaceholderError(toks, n, "Expected coil name")
           ELSE ActionLoop(toks, n.pos,
                  Append(actions, ActionRec("DeEnergise", n.tok.str, <<>>)))
      [] OTHER -> Ok(p, actions)

\* Parser::parse_actions
parse_actions(toks, p) == ActionLoop(toks, p, <<>>)

-----------------------------------------------------------------------------
(* Parser: declarations and the module.                                    *)

\* What the parameter loop of parse_signal / parse_coil does with the token
\* it took: `if let Some(Identifier(param)) = self.next() { push(param) }`.
TakeParam(params, tok) ==
    IF tok.tok = "Identifier" THEN Append(params, tok.str) ELSE params

\* The parameter loop of parse_signal / parse_coil (parser.rs:284-293, 326-335).
RECURSIVE ParamLoop(_, _, _)
ParamLoop(toks, p, params) ==
    IF peek(toks, p).tok = "RParen"
    THEN Ok(p, params)
    ELSE LET n == next(toks, p) IN
         IF peek(toks, n.pos).tok = "Comma"
         THEN ParamLoop(toks, n.pos + 1, TakeParam(params, n.tok))
         ELSE Ok(n.pos, TakeParam(params, n.tok))

\* `if peek == LParen { next; <parameter loop>; expect(RParen)? }`
ParamList(toks, p) ==
    IF peek(toks, p).tok = "LParen"
    THEN Try(ParamLoop(toks, p + 1, <<>>), LAMBDA a :
         Try(expect(toks, a.pos, "RParen"), LAMBDA r :
           Ok(r.pos, a.val)))
    ELSE Ok(p, <<>>)

\* The head of every declaration: expect(keyword)?, then the name or the
\* placeholder error.
DeclName(toks, p, keyword, msg) ==
    Try(expect(toks, p, keyword), LAMBDA k :
      LET n == next(toks, k.pos) IN
      IF n.tok.tok # "Identifier"
      THEN PlaceholderError(toks, n, msg)
      ELSE Ok(n.pos, n.tok.str))

\* The optional type of parse_signal: `if peek == Colon { next; if let
\* Some(Identifier(t)) = self.next() { type_ = Some(t) } }`.  An Option is a
\* sequence of length at most one.
SignalType(toks, p) ==
    IF peek(toks, p).tok = "Colon"
    THEN LET n == next(toks, p + 1) IN
         Ok(n.pos, IF n.tok.tok = "Identifier" THEN <<n.tok.str>> ELSE <<>>)
    ELSE Ok(p, <<>>)

\* Parser::parse_signal
parse_signal(toks, p) ==
    Try(DeclName(toks, p, "Signal", "Expected signal name"), LAMBDA n :
    Try(ParamList(toks, n.pos), LAMBDA ps :
    Try(SignalType(toks, ps.pos), LAMBDA t :
      Ok(t.pos, [name |-> n.val, parameters |-> ps.val, type_ |-> t.val]))))

\* The modifier loop of parse_coil (parser.rs:343-355).
RECURSIVE ModifierLoop(_, _, _)
ModifierLoop(toks, p, c) ==
    LET t == peek(toks, p) IN
    IF t.tok = "Identifier" /\ t.str = "latching"
    THEN ModifierLoop(toks, p + 1, [c EXCEPT !.latching = <<TRUE>>])
    ELSE IF t.tok = "Identifier" /\ t.str = "critical"
    THEN ModifierLoop(toks, p + 1, [c EXCEPT !.critical = <<TRUE>>])
    ELSE Ok(p, c)

\* Parser::parse_coil
parse_coil(toks, p) ==
    Try(DeclName(toks, p, "Coil", "Expected coil name"), LAMBDA n :
    Try(ParamList(toks, n.pos), LAMBDA ps :
      ModifierLoop(toks, ps.pos,
        [name |-> n.val, parameters |-> ps.val,
         latching |-> <<>>, critical |-> <<>>])))

\* Parser::parse_rung
parse_rung(toks, p) ==
    Try(DeclName(toks, p, "Rung", "Expected rung name"), LAMBDA n :
    Try(expect(toks, n.pos, "Colon"), LAMBDA c :
    Try(expect(toks, c.pos, "When"), LAMBDA w :
    Try(parse_guard(toks, w.pos), LAMBDA g :
    Try(expect(toks, g.pos, "Then"), LAMBDA t :
    Try(parse_actions(toks, t.pos), LAMBDA a :
      Ok(a.pos, [name |-> n.val, guard |-> g.val, actions |-> a.val])))))))

\* Parser::parse_block
parse_block(toks, p) ==
    Try(DeclName(toks, p, "Block", "Expected block name"), LAMBDA n :
    Try(expect(toks, n.pos, "Colon"), LAMBDA c :
      Ok(c.pos, [name |-> n.val, inputs |-> <<>>, outputs |-> <<>>,
                 internals |-> <<>>, implementation |-> <<>>,
                 effect |-> <<>>])))

\* Parser::parse_network
parse_network(toks, p) ==
    Try(DeclName(toks, p, "Network", "Expected network name"), LAMBDA n :
    Try(expect(toks, n.pos, "Colon"), LAMBDA c :
      Ok(c.pos, [name |-> n.val, wires |-> <<>>, outputs |-> <<>>])))

\* The context clause of parse_module (parser.rs:231-237): `next; expect(Colon)?;
\* if let Some(String(s)) = self.next() { context = Some(s) }`.
ContextClause(toks, p, m) ==
    Try(expect(toks, p + 1, "Colon"), LAMBDA c :
      LET n == next(toks, c.pos) IN
      Ok(n.pos, IF n.tok.tok = "String"
                THEN [m EXCEPT !.context = <<n.tok.str>>] ELSE m))

\* The arm of the top-level loop for a token that starts no declaration
\* (parser.rs:253): `_ => break`, so parse_module returns Ok at once.
OtherToken(toks, p, m) == Ok(p, m)

\* The while loop of Parser::parse_module (parser.rs:229-255).
RECURSIVE ModuleLoop(_, _, _)
ModuleLoop(toks, p, m) ==
    LET t == peek(toks, p).tok IN
    CASE t = "None" -> Ok(p, m)
      [] t = "Context" ->
           Try(ContextClause(toks, p, m), LAMBDA c :
             ModuleLoop(toks, c.pos, c.val))
      [] t = "Signal" ->
           Try(parse_signal(toks, p), LAMBDA d :
             ModuleLoop(toks, d.pos, [m EXCEPT !.signals = Append(@, d.val)]))
      [] t = "Coil" ->
           Try(parse_coil(toks, p), LAMBDA d :
             ModuleLoop(toks, d.pos, [m EXCEPT !.coils = Append(@, d.val)]))
      [] t = "Rung" ->
           Try(parse_rung(toks, p), LAMBDA d :
             ModuleLoop(toks, d.pos, [m EXCEPT !.rungs = Append(@, d.val)]))
      [] t = "Block" ->
           Try(parse_block(toks, p), LAMBDA d :
             ModuleLoop(toks, d.pos, [m EXCEPT !.blocks = Append(@, d.val)]))
      [] t = "Network" ->
           Try(parse_network(toks, p), LAMBDA d :
             ModuleLoop(toks, d.pos, [m EXCEPT !.networks = Append(@, d.val)]))
      [] OTHER -> OtherToken(toks, p, m)

EmptyModule(name) ==
    [name |-> name, context |-> <<>>, intent |-> <<>>, constraints |-> <<>>,
     signals |-> <<>>, coils |-> <<>>, rungs |-> <<>>, blocks |-> <<>>,
     networks |-> <<>>]

\* Parser::parse_module
parse_module(toks, p) ==
    Try(DeclName(toks, p, "Module", "Expected module name"), LAMBDA n :
      ModuleLoop(toks, n.pos, EmptyModule(n.val)))

\* parse(source), after Parser::new built the token list.
parse(toks) == parse_module(toks, 0)

-----------------------------------------------------------------------------
(* Resolver.  A symbol table is a function from the declared names to the  *)
(* declarations (a HashMap keyed by name), with the random state that      *)
(* fixes the order in which the map would iterate its keys.                *)

\* CompileError::NameResolution(format!("<what>: {}", name))
NameResolutionError(what, name) ==
    [kind |-> "NameResolution", line |-> 0, column |-> 0,
     message |-> <<what, name>>, at |-> 0]

\* The random states a process can give its HashMaps (RandomState::new): a
\* state fixes the order in which a map iterates its keys.
Hashers == {"h1", "h2"}
DefaultHasher == "h1"

\* SymbolTable::new in a process whose HashMaps get the random state h.
SymbolTableWith(h) ==
    [signals |-> <<>>, coils |-> <<>>, blocks |-> <<>>, hasher |-> h]

\* SymbolTable::new
NewSymbolTable == SymbolTableWith(hasher)

\* HashMap::contains_key and HashMap::insert on a table.
ContainsKey(table, name) == name \in DOMAIN table
Insert(table, name, decl) ==
    [k \in DOMAIN table \cup {name} |-> IF k = name THEN decl ELSE table[k]]

\* Mutant of add_signal: the declaration replaces the one of the same name.
add_signal_overwrite(symbols, signal) ==
    [ok |-> TRUE,
     val |-> [symbols EXCEPT !.signals = Insert(@, signal.name, signal)],
     err |-> NoError]

\* SymbolTable::add_signal
add_signal(symbols, signal) ==
    IF ContainsKey(symbols.signals, signal.name)
    THEN [ok |-> FALSE, val |-> symbols,
          err |-> NameResolutionError("Duplicate signal name", signal.name)]
    ELSE [ok |-> TRUE,
          val |-> [symbols EXCEPT !.signals = Insert(@, signal.name, signal)],
          err |-> NoError]

\* Mutant of add_coil: coils are checked against the names of the signals too.
add_coil_shared(symbols, coil) ==
    IF ContainsKey(symbols.coils, coil.name) \/ ContainsKey(symbols.signals, coil.name)
    THEN [ok |-> FALSE, val |-> symbols,
          err |-> NameResolutionError("Duplicate coil name", coil.name)]
    ELSE [ok |-> TRUE,
          val |-> [symbols EXCEPT !.coils = Insert(@, coil.name, coil)],
          err |-> NoError]

\* SymbolTable::add_coil
add_coil(symbols, coil) ==
    IF ContainsKey(symbols.coils, coil.name)
    THEN [ok |-> FALSE, val |-> symbols,
          err |-> NameResolutionError("Duplicate coil name", coil.name)]
    ELSE [ok |-> TRUE,
          val |-> [symbols EXCEPT !.coils = Insert(@, coil.name, coil)],
          err |-> NoError]

ResolveOk == [ok |-> TRUE, err |-> NoError]

\* Mutant of resolve_signal: a coil of that name satisfies the lookup too.
resolve_signal_any(symbols, name) ==
    IF ~ContainsKey(symbols.signals, name) /\ ~ContainsKey(symbols.coils, name)
    THEN [ok |-> FALSE, err |-> NameResolutionError("Undefined signal", name)]
    ELSE ResolveOk

\* SymbolTable::resolve_signal
resolve_signal(symbols, name) ==
    IF ~ContainsKey(symbols.signals, name)
    THEN [ok |-> FALSE, err |-> NameResolutionError("Undefined signal", name)]
    ELSE ResolveOk

\* SymbolTable::resolve_coil
resolve_coil(symbols, name) ==
    IF ~ContainsKey(symbols.coils, name)
    THEN [ok |-> FALSE, err |-> NameResolutionError("Undefined coil", name)]
    ELSE ResolveOk

\* Mutant of resolve_guard: the right operand is resolved before the left.
RECURSIVE resolve_guard_right_first(_, _)
resolve_guard_right_first(guard, symbols) ==
    CASE guard.kind = "Contact" -> resolve_signal(symbols, guard.name)
      [] guard.kind \in {"And", "Or"} ->
           LET r == resolve_guard_right_first(guard.right, symbols) IN
           IF ~r.ok THEN r ELSE resolve_guard_right_first(guard.left, symbols)
      [] guard.kind = "Not" -> resolve_guard_right_first(guard.expr, symbols)

\* resolve_guard
RECURSIVE resolve_guard(_, _)
resolve_guard(guard, symbols) ==
    CASE guard.kind = "Contact" -> resolve_signal(symbols, guard.name)
      [] guard.kind \in {"And", "Or"} ->
           LET l == resolve_guard(guard.left, symbols) IN
           IF ~l.ok THEN l ELSE resolve_guard(guard.right, symbols)
      [] guard.kind = "Not" -> resolve_guard(guard.expr, symbols)

\* resolve_names, first pass: `for signal in &module.signals { add_signal? }`
RECURSIVE AddSignals(_, _, _)
AddSignals(signals, i, symbols) ==
    IF i > Len(signals) THEN [ok |-> TRUE, val |-> symbols, err |-> NoError]
    ELSE LET r == add_signal(symbols, signals[i]) IN
         IF ~r.ok THEN r ELSE AddSignals(signals, i + 1, r.val)

\* resolve_names, first pass: `for coil in &module.coils { add_coil? }`
RECURSIVE AddCoils(_, _, _)
AddCoils(coils, i, symbols) ==
    IF i > Len(coils) THEN [ok |-> TRUE, val |-> symbols, err |-> NoError]
    ELSE LET r == add_coil(symbols, coils[i]) IN
         IF ~r.ok THEN r ELSE AddCoils(coils, i + 1, r.val)

\* `for action in &rung.actions { symbols.resolve_coil(&action.coil)? }`
RECURSIVE ResolveActions(_, _, _)
ResolveActions(actions, i, symbols) ==
    IF i > Len(actions) THEN ResolveOk
    ELSE LET r == resolve_coil(symbols, actions[i].coil) IN
         IF ~r.ok THEN r ELSE ResolveActions(actions, i + 1, symbols)

\* resolve_names, second pass: `for rung in &module.rungs { ... }`
RECURSIVE ResolveRungs(_, _, _)
ResolveRungs(rungs, i, symbols) ==
    IF i > Len(rungs) THEN ResolveOk
    ELSE LET g == resolve_guard(rungs[i].guard, symbols) IN
         IF ~g.ok THEN g
         ELSE LET a == ResolveActions(rungs[i].actions, 1, symbols) IN
              IF ~a.ok THEN a ELSE ResolveRungs(rungs, i + 1, symbols)

\* The keys of a set in the order a map of random state h iterates them.
KeyUniverse == <<"a", "b", "c", "d", "x", "y", "z">>
FirstKey(h, keys) ==
    LET at(k) == CHOOSE i \in DOMAIN KeyUniverse : KeyUniverse[i] = k IN
    CHOOSE k \in keys :
        \A o \in keys : IF h = DefaultHasher THEN at(k) <= at(o) ELSE at(k) >= at(o)

\* The names the contacts of a guard look up.
RECURSIVE LookedUp(_)
LookedUp(guard) ==
    CASE guard.kind = "Contact" -> {guard.name}
      [] guard.kind \in {"And", "Or"} -> LookedUp(guard.left) \cup LookedUp(guard.right)
      [] guard.kind = "Not" -> LookedUp(guard.expr)

\* Mutant of ResolveFrom: the second pass looks the referenced signal names
\* up by iterating a hash set of them, and reports the first missing one in
\* iteration order.
ResolveFromTableOrder(m, symbols) ==
    LET s == AddSignals(m.signals, 1, symbols) IN
    IF ~s.ok THEN [ok |-> FALSE, err |-> s.err]
    ELSE LET c == AddCoils(m.coils, 1, s.val)
             used == UNION {LookedUp(m.rungs[i].guard) : i \in DOMAIN m.rungs}
             missing == {k \in used : ~ContainsKey(c.val.signals, k)} IN
         IF ~c.ok THEN [ok |-> FALSE, err |-> c.err]
         ELSE IF missing # {}
         THEN resolve_signal(c.val, FirstKey(symbols.hasher, missing))
         ELSE ResolveRungs(m.rungs, 1, c.val)

\* The body of resolve_names, from the table SymbolTable::new returned.
ResolveFrom(m, symbols) ==
    LET s == AddSignals(m.signals, 1, symbols) IN
    IF ~s.ok THEN [ok |-> FALSE, err |-> s.err]
    ELSE LET c == AddCoils(m.coils, 1, s.val) IN
         IF ~c.ok THEN [ok |-> FALSE, err |-> c.err]
         ELSE ResolveRungs(m.rungs, 1, c.val)

\* resolve_names
resolve_names(m) == ResolveFrom(m, NewSymbolTable)

-----------------------------------------------------------------------------
(* Emitter.  An Option is a sequence of length at most one: <<>> is None,  *)
(* <<v>> is Some(v).  The IR is the value emit_ir hands to the serializer; *)
(* the IR text is serde_json's rendering of that value.                    *)

RECURSIVE MapSeq(_, _)
\* iter().map(F).collect()
MapSeq(F(_), s) ==
    IF s = <<>> THEN <<>> ELSE <<F(Head(s))>> \o MapSeq(F, Tail(s))

\* Option::map
MapOption(F(_), o) == IF o = <<>> THEN <<>> ELSE <<F(o[1])>>

\* emit_intent
emit_intent(intent) == [goal |-> intent.goal]

\* emit_constraints
emit_constraints(constraints) ==
    [data_privacy |-> constraints.data_privacy,
     quality |-> constraints.quality,
     cost |-> constraints.cost]

\* emit_signal
emit_signal(signal) ==
    [name |-> signal.name,
     parameters |-> IF signal.parameters = <<>> THEN <<>>
                    ELSE <<signal.parameters>>,
     type_ |-> signal.type_]

\* emit_coil
emit_coil(coil) ==
    [name |-> coil.name,
     parameters |-> IF coil.parameters = <<>> THEN <<>>
                    ELSE <<coil.parameters>>,
     latching |-> coil.latching,
     critical |-> coil.critical]

\* emit_expr
emit_expr(expr) ==
    CASE expr.kind = "String"     -> [kind |-> "String", str |-> expr.str]
      [] expr.kind = "Number"     -> [kind |-> "Number", num |-> expr.num]
      [] expr.kind = "Boolean"    -> [kind |-> "Boolean", b |-> expr.b]
      [] expr.kind = "Identifier" -> [kind |-> "Identifier", str |-> expr.str]

\* Mutant of emit_guard: the operands of a binary node change places.
RECURSIVE emit_guard_swapped(_)
emit_guard_swapped(guard) ==
    CASE guard.kind = "Contact" ->
           [kind |-> "Contact", name |-> guard.name,
            contact_type |-> IF guard.contact_type = "NO" THEN "NO" ELSE "NC",
            arguments |-> <<MapSeq(emit_expr, guard.arguments)>>]
      [] guard.kind \in {"And", "Or"} ->
           [kind |-> guard.kind, left |-> emit_guard_swapped(guard.right),
            right |-> emit_guard_swapped(guard.left)]
      [] guard.kind = "Not" ->
           [kind |-> "Not", expr |-> emit_guard_swapped(guard.expr)]

\* emit_guard
RECURSIVE emit_guard(_)
emit_guard(guard) ==
    CASE guard.kind = "Contact" ->
           [kind |-> "Contact", name |-> guard.name,
            contact_type |-> IF guard.contact_type = "NO" THEN "NO" ELSE "NC",
            arguments |-> <<MapSeq(emit_expr, guard.arguments)>>]
      [] guard.kind = "And" ->
           [kind |-> "And", left |-> emit_guard(guard.left),
            right |-> emit_guard(guard.right)]
      [] guard.kind = "Or" ->
           [kind |-> "Or", left |-> emit_guard(guard.left),
            right |-> emit_guard(guard.right)]
      [] guard.kind = "Not" ->
           [kind |-> "Not", expr |-> emit_guard(guard.expr)]

\* emit_action
emit_action(action) ==
    [action_type |->
        CASE action.action_type = "Energise"   -> "energise"
          [] action.action_type = "DeEnergise" -> "de_energise"
          [] action.action_type = "Escalate"   -> "escalate"
          [] action.action_type = "Require"    -> "require",
     coil |-> action.coil,
     arguments |-> IF action.arguments = <<>> THEN <<>>
                   ELSE <<MapSeq(emit_expr, action.arguments)>>]

\* emit_rung
emit_rung(rung) ==
    [name |-> rung.name,
     guard |-> emit_guard(rung.guard),
     actions |-> MapSeq(emit_action, rung.actions)]

\* The PortDecl, Wire and Output closures of emit_block / emit_network.
emit_port(p) == [name |-> p.name, type_ |-> p.type_]
emit_wire(w) == [source |-> w.source, target |-> w.target]
emit_output(o) == [name |-> o.name, source |-> o.source]

\* emit_block
emit_block(block) ==
    [name |-> block.name,
     inputs |-> <<MapSeq(emit_port, block.inputs)>>,
     outputs |-> <<MapSeq(emit_port, block.outputs)>>,
     effect |-> block.effect]

\* emit_network
emit_network(network) ==
    [name |-> network.name,
     wires |-> <<MapSeq(emit_wire, network.wires)>>,
     outputs |-> <<MapSeq(emit_output, network.outputs)>>]

\* Mutant of emit_module: an empty top-level list is emitted as None.
emit_module_sparse(m) ==
    [name |-> m.name,
     context |-> m.context,
     intent |-> MapOption(emit_intent, m.intent),
     constraints |-> MapOption(emit_constraints, m.constraints),
     signals |-> IF m.signals = <<>> THEN <<>>
                 ELSE <<MapSeq(emit_signal, m.signals)>>,
     coils |-> IF m.coils = <<>> THEN <<>> ELSE <<MapSeq(emit_coil, m.coils)>>,
     rungs |-> IF m.rungs = <<>> THEN <<>> ELSE <<MapSeq(emit_rung, m.rungs)>>,
     blocks |-> IF m.blocks = <<>> THEN <<>>
                ELSE <<MapSeq(emit_block, m.blocks)>>,
     networks |-> IF m.networks = <<>> THEN <<>>
                  ELSE <<MapSeq(emit_network, m.networks)>>]

\* emit_module
emit_module(m) ==
    [name |-> m.name,
     context |-> m.context,
     intent |-> MapOption(emit_intent, m.intent),
     constraints |-> MapOption(emit_constraints, m.constraints),
     signals |-> <<MapSeq(emit_signal, m.signals)>>,
     coils |-> <<MapSeq(emit_coil, m.coils)>>,
     rungs |-> <<MapSeq(emit_rung, m.rungs)>>,
     blocks |-> <<MapSeq(emit_block, m.blocks)>>,
     networks |-> <<MapSeq(emit_network, m.networks)>>]

\* emit_ir: no path of emit_module returns Err, and serializing the IR
\* structs does not fail.
emit_ir(m) ==
    [ok |-> TRUE, val |-> [version |-> "0.1.0", module |-> emit_module(m)],
     err |-> NoError]

-----------------------------------------------------------------------------
(* The compiler as a state machine.  stage is where the pipeline of        *)
(* compile_command stands: "lex" while Parser::new pushes tokens, "resolve"*)
(* once parse returned Ok, "emit" once resolve_names returned Ok, "write"  *)
(* once emit_ir returned Ok, "done" once the output is written, "failed"   *)
(* once a stage returned Err.  ir is the result of emit_ir and written the *)
(* content of the output file, each an Option.  hasher is the random state *)
(* the process gives its HashMaps.  source is the source text as a         *)
(* sequence of characters and offset the number of them the lexer has      *)
(* read; the specifications that start from lexemes leave source empty.    *)

NoModule == EmptyModule("")

-----------------------------------------------------------------------------
(* The loops of the parser, one iteration at a time: whether the iteration *)
(* that starts at position p goes round again, and the position at which   *)
(* the next one starts.                                                    *)

Leave == [again |-> FALSE, pos |-> 0]
Again(p) == [again |-> TRUE, pos |-> p]

\* The while loop of parse_module (parser.rs:229-255): an arm that returned
\* Ok goes round again, `?` on an Err and `_ => break` leave.
ModuleLoopAgain(toks, p) ==
    LET t == peek(toks, p).tok
        d == CASE t = "Context" -> ContextClause(toks, p, NoModule)
               [] t = "Signal"  -> parse_signal(toks, p)
               [] t = "Coil"    -> parse_coil(toks, p)
               [] t = "Rung"    -> parse_rung(toks, p)
               [] t = "Block"   -> parse_block(toks, p)
               [] t = "Network" -> parse_network(toks, p)
               [] OTHER         -> Err(p, NoError) IN
    IF d.ok THEN Again(d.pos) ELSE Leave

\* The parameter loop (parser.rs:284-293, 326-335): round again after a comma.
ParamLoopAgain(toks, p) ==
    IF peek(toks, p).tok # "RParen"
       /\ peek(toks, next(toks, p).pos).tok = "Comma"
    THEN Again(next(toks, p).pos + 1) ELSE Leave

\* The argument loop (parser.rs:454-461, 520-527): round again after an
\* expression and a comma.
ArgLoopAgain(toks, p) ==
    IF peek(toks, p).tok # "RParen"
       /\ parse_expr(toks, p).ok
       /\ peek(toks, parse_expr(toks, p).pos).tok = "Comma"
    THEN Again(parse_expr(toks, p).pos + 1) ELSE Leave

\* The loops of parse_guard_or and parse_guard_and: round again after the
\* operator and an operand.
OrLoopAgain(toks, p) ==
    IF peek(toks, p).tok = "Or" /\ parse_guard_and(toks, p + 1).ok
    THEN Again(parse_guard_and(toks, p + 1).pos) ELSE Leave
AndLoopAgain(toks, p) ==
    IF peek(toks, p).tok = "And" /\ parse_guard_not(toks, p + 1).ok
    THEN Again(parse_guard_not(toks, p + 1).pos) ELSE Leave

\* The modifier loop of parse_coil (parser.rs:343-355): round again after
\* `latching` or `critical`.
ModifierLoopAgain(toks, p) ==
    IF peek(toks, p).tok = "Identifier"
       /\ peek(toks, p).str \in {"latching", "critical"}
    THEN Again(p + 1) ELSE Leave

\* The loop of parse_actions: round again after an action.
ActionLoopAgain(toks, p) ==
    LET n == next(toks, p + 1) IN
    CASE peek(toks, p).tok = "Energise"
           /\ n.tok.tok = "Identifier" /\ ArgList(toks, n.pos).ok ->
           Again(ArgList(toks, n.pos).pos)
      [] peek(toks, p).tok = "DeEnergise" /\ n.tok.tok = "Identifier" ->
           Again(n.pos)
      [] OTHER -> Leave

\* The parser reads every token of toks: it returns Ok at the end of the
\* list, or fails on running out of tokens.  The lexer of the model hands
\* over at most one token after the first one the parser does not read.
ReadsAllOf(r, n) == IF r.ok THEN r.pos = n ELSE r.err.at = n + 1
ReadsAll(toks) == ReadsAllOf(parse(toks), Len(toks))

\* Parser::new, one iteration of the loop with an Ok token (parser.rs:120-129).
LexToken(lx) ==
    /\ stage = "lex"
    /\ LET l == LexPosition(lx, line, column) IN
       /\ tokens' = Append(tokens, l.tok)
       /\ line' = l.line
       /\ column' = l.column
    /\ UNCHANGED <<pos, stage, module, error, ir, written, hasher, source, offset>>

\* Parser::new, one iteration of the loop on the source text with an Ok token
\* (parser.rs:118-129).
LexSlice ==
    /\ stage = "lex"
    /\ offset < Len(source)
    /\ Lexer_next(source, offset).ok
    /\ tokens' = Append(tokens,
                        LexPosition(Lexer_next(source, offset).lx, line, column).tok)
    /\ line' = LexPosition(Lexer_next(source, offset).lx, line, column).line
    /\ column' = LexPosition(Lexer_next(source, offset).lx, line, column).column
    /\ offset' = Lexer_next(source, offset).end
    /\ UNCHANGED <<pos, stage, module, error, ir, written, hasher, source>>

\* Parser::new, one iteration of the loop with an Err token (parser.rs:130-133):
\* no token is pushed and the column moves by one.  How far the lexer moves
\* over unmatched text is the library's choice: at least one character and at
\* most the characters it read.
LexSkip ==
    /\ stage = "lex"
    /\ offset < Len(source)
    /\ ~Lexer_next(source, offset).ok
    /\ ~Lexer_next(source, offset).none
    /\ \E k \in (Lexer_next(source, offset).start + 1)
                 .. Lexer_next(source, offset).end : offset' = k
    /\ column' = column + 1
    /\ UNCHANGED <<tokens, line, pos, stage, module, error, ir, written, hasher,
                   source>>

\* Parser::new, the end of the loop (parser.rs:118): lexer.next() skipped the
\* rest of the source and returned None.
LexEnd ==
    /\ stage = "lex"
    /\ offset < Len(source)
    /\ Lexer_next(source, offset).none
    /\ offset' = Len(source)
    /\ UNCHANGED <<tokens, line, column, pos, stage, module, error, ir, written,
                   hasher, source>>

\* parse(source) once the lexer is at the end of the source: Parser{tokens,
\* pos: 0}.parse_module().
ParseReturns(r) ==
    /\ pos' = r.pos
    /\ stage' = IF r.ok THEN "resolve" ELSE "failed"
    /\ module' = IF r.ok THEN r.val ELSE NoModule
    /\ error' = r.err
    /\ UNCHANGED <<tokens, line, column, ir, written, hasher, source, offset>>

Parse ==
    /\ stage = "lex"
    /\ ParseReturns(parse(tokens))

\* Mutant of ResolveReturns: the error of resolve_names is dropped and the
\* pipeline goes on.
ResolveReturnsUnchecked(r) ==
    /\ stage' = "emit"
    /\ error' = r.err
    /\ UNCHANGED <<tokens, line, column, pos, module, ir, written, hasher, source, offset>>

\* resolve_names(&mut module)? in compile_command (cli.rs:82).
ResolveReturns(r) ==
    /\ stage' = IF r.ok THEN "emit" ELSE "failed"
    /\ error' = r.err
    /\ UNCHANGED <<tokens, line, column, pos, module, ir, written, hasher, source, offset>>

Resolve ==
    /\ stage = "resolve"
    /\ ResolveReturns(resolve_names(module))

\* emit_ir(&module)? in compile_command (cli.rs:85).
EmitReturns(r) ==
    /\ stage' = IF r.ok THEN "write" ELSE "failed"
    /\ ir' = IF r.ok THEN <<r.val>> ELSE <<>>
    /\ error' = r.err
    /\ UNCHANGED <<tokens, line, column, pos, module, written, hasher, source, offset>>

Emit ==
    /\ stage = "emit"
    /\ EmitReturns(emit_ir(module))

\* CompileError::Io
IoError ==
    [kind |-> "Io", line |-> 0, column |-> 0, message |-> <<>>, at |-> 0]

\* fs::write(&output_path, ir_json).map_err(CompileError::Io)? in
\* compile_command (cli.rs:93-94): the file system accepts the write or not.
Write ==
    /\ stage = "write"
    /\ \E accepted \in BOOLEAN :
          /\ stage' = IF accepted THEN "done" ELSE "failed"
          /\ written' = IF accepted THEN ir ELSE written
          /\ error' = IF accepted THEN NoError ELSE IoError
    /\ UNCHANGED <<tokens, line, column, pos, module, ir, hasher, source, offset>>

\* Spec: the whole pipeline over token lists of at most MaxTokens tokens.
ModuleLexemes ==
    {KwModule, KwSignal, KwCoil, KwRung, KwBlock, KwNetwork, KwContext,
     KwWhen, KwThen, KwEnergise, KwDeEnergise, KwNO, KwNC, KwAnd, KwOr, KwNot,
     KwColon, KwComma, KwLParen, KwRParen, KwTrue,
     Ident("a"), Ident("b"), IdLatching, Num7, StrS, StrNL}

Init ==
    /\ tokens = <<>>
    /\ line = 1
    /\ column = 1
    /\ pos = 0
    /\ stage = "lex"
    /\ module = NoModule
    /\ error = NoError
    /\ ir = <<>>
    /\ written = <<>>
    /\ hasher = DefaultHasher
    /\ source = <<>>
    /\ offset = 0

Next ==
    \/ /\ Len(tokens) < MaxTokens
       /\ ReadsAll(tokens)
       /\ \E lx \in ModuleLexemes : LexToken(lx)
    \/ Parse
    \/ Resolve
    \/ Emit
    \/ Write

Spec == Init /\ [][Next]_vars

\* SpecGuard: the lexer has pushed `module m rung r : when`; what follows is
\* drawn from the tokens of guards, `then` and argument lists.
\* Parser::new over the lexemes i .. j of a list, from line ln and column cl:
\* the loop over the first half of them, then over the rest.
RECURSIVE LexRange(_, _, _, _, _)
LexRange(lxs, i, j, ln, cl) ==
    IF i > j THEN [tokens |-> <<>>, line |-> ln, column |-> cl]
    ELSE IF i = j
    THEN [tokens |-> <<LexPosition(lxs[i], ln, cl).tok>>,
          line |-> LexPosition(lxs[i], ln, cl).line,
          column |-> LexPosition(lxs[i], ln, cl).column]
    ELSE LET first == LexRange(lxs, i, (i + j) \div 2, ln, cl)
             rest == LexRange(lxs, (i + j) \div 2 + 1, j,
                              first.line, first.column) IN
         [tokens |-> first.tokens \o rest.tokens,
          line |-> rest.line, column |-> rest.column]
LexAll(lxs, i, ln, cl) == LexRange(lxs, i, Len(lxs), ln, cl)

RungHeader == <<KwModule, Ident("m"), KwRung, Ident("r"), KwColon, KwWhen>>

\* Identifiers are named a, b, c, a, ... in the order they are pushed.
IdNames == <<"a", "b", "c">>
NumIdents(toks) ==
    Cardinality({i \in Len(RungHeader) + 1 .. Len(toks) : toks[i].tok = "Identifier"})
NextIdent(toks) == Ident(IdNames[(NumIdents(toks) % Len(IdNames)) + 1])

GuardLexemes(toks) ==
    {KwNO, KwAnd, KwOr, KwNot, KwLParen, KwRParen, KwThen, KwComma,
     NextIdent(toks)}

InitGuard ==
    /\ LET h == LexAll(RungHeader, 1, 1, 1) IN
       /\ tokens = h.tokens
       /\ line = h.line
       /\ column = h.column
    /\ pos = 0
    /\ stage = "lex"
    /\ module = NoModule
    /\ error = NoError
    /\ ir = <<>>
    /\ written = <<>>
    /\ hasher = DefaultHasher
    /\ source = <<>>
    /\ offset = 0

NextGuard ==
    \/ /\ ReadsAll(tokens)
       /\ \E lx \in GuardLexemes(tokens) :
             /\ Len(tokens) < Len(RungHeader) + MaxGuardTokens \/ lx = KwThen
             /\ LexToken(lx)
    \/ Parse

SpecGuard == InitGuard /\ [][NextGuard]_vars

\* SpecResolve: resolve_names applied to the modules of a bounded set.
Names == {"a", "b"}

RECURSIVE SeqsOfLen(_, _)
SeqsOfLen(S, n) ==
    IF n = 0 THEN {<<>>}
    ELSE {<<x>> \o s : x \in S, s \in SeqsOfLen(S, n - 1)}
SeqsUpTo(S, n) == UNION {SeqsOfLen(S, k) : k \in 0 .. n}

SignalDecls == {[name |-> x, parameters |-> <<>>, type_ |-> <<>>] : x \in Names}
CoilDecls ==
    {[name |-> x, parameters |-> <<>>, latching |-> <<>>, critical |-> <<>>] :
        x \in Names}
Actions == {ActionRec("Energise", x, <<>>) : x \in Names}

\* The guard trees of exactly n nodes over the contacts on Names.
RECURSIVE TreesOfSize(_)
TreesOfSize(n) ==
    IF n = 1 THEN {Contact(x, "NO", <<>>) : x \in Names}
    ELSE {NotNode(t) : t \in TreesOfSize(n - 1)}
         \cup UNION {UNION {{AndNode(l, r), OrNode(l, r)} :
                              l \in TreesOfSize(i), r \in TreesOfSize(n - 1 - i)} :
                       i \in 1 .. n - 2}

\* The lists of k rungs with at most n guard nodes and a actions in all.
RECURSIVE RungSeqs(_, _, _)
RungSeqs(k, n, a) ==
    IF k = 0 THEN {<<>>}
    ELSE UNION {UNION {
           {<<[name |-> "r", guard |-> g, actions |-> as]>> \o rest :
               g \in TreesOfSize(gn), as \in SeqsOfLen(Actions, an),
               rest \in RungSeqs(k - 1, n - gn, a - an)} :
           gn \in 1 .. n - (k - 1)} : an \in 0 .. a}

\* The modules of at most d signals, d coils and d rungs, with at most n guard
\* nodes and a actions over the rungs.
\* and the modules without rungs of d + 2 signals or d + 2 coils, lists long
\* enough to repeat two names.
ResolveInputs(d, n, a) ==
    {[EmptyModule("m") EXCEPT !.signals = ss, !.coils = cs, !.rungs = rs] :
        ss \in SeqsUpTo(SignalDecls, d),
        cs \in SeqsUpTo(CoilDecls, d),
        rs \in UNION {RungSeqs(k, n, a) : k \in 0 .. d}}
    \cup {[EmptyModule("m") EXCEPT !.signals = ss] :
             ss \in SeqsOfLen(SignalDecls, d + 2)}
    \cup {[EmptyModule("m") EXCEPT !.coils = cs] :
             cs \in SeqsOfLen(CoilDecls, d + 2)}

InitResolve ==
    /\ tokens = <<>>
    /\ line = 1
    /\ column = 1
    /\ pos = 0
    /\ stage = "resolve"
    /\ module \in ResolveInputs(MaxDecls, MaxGuardNodes, MaxActions)
    /\ error = NoError
    /\ ir = <<>>
    /\ written = <<>>
    /\ hasher = DefaultHasher
    /\ source = <<>>
    /\ offset = 0

NextResolve == Resolve \/ Emit

SpecResolve == InitResolve /\ [][NextResolve]_vars

\* SpecEmit: emit_ir applied to the modules of a bounded set, whatever the
\* resolver would say of them, and the write of its result.
SignalPool ==
    {[name |-> "a", parameters |-> <<>>, type_ |-> <<>>],
     [name |-> "b", parameters |-> <<"x", "y">>, type_ |-> <<"t">>]}
CoilPool ==
    {[name |-> "a", parameters |-> <<>>, latching |-> <<>>, critical |-> <<>>],
     [name |-> "c", parameters |-> <<"x">>, latching |-> <<TRUE>>,
      critical |-> <<>>]}
ExprPool == <<[kind |-> "Number", num |-> 7], [kind |-> "Identifier", str |-> "x"]>>
RungPool ==
    {[name |-> "r", guard |-> Contact("a", "NO", <<>>), actions |-> <<>>],
     [name |-> "r", guard |-> Contact("b", "NC", ExprPool),
      actions |-> <<ActionRec("Energise", "c", <<>>),
                    ActionRec("DeEnergise", "a", <<>>)>>],
     [name |-> "q",
      guard |-> OrNode(NotNode(Contact("a", "NO", <<>>)),
                       AndNode(Contact("b", "NO", ExprPool),
                               Contact("a", "NC", <<>>))),
      actions |-> <<ActionRec("Energise", "c", ExprPool)>>]}
PortIn == [name |-> "i", type_ |-> "t"]
PortOut == [name |-> "o", type_ |-> "t"]
BlockPool ==
    {[name |-> "k", inputs |-> <<>>, outputs |-> <<>>, internals |-> <<>>,
      implementation |-> <<>>, effect |-> <<>>],
     [name |-> "l", inputs |-> <<PortIn, PortOut>>, outputs |-> <<PortOut>>,
      internals |-> <<>>, implementation |-> <<>>, effect |-> <<"e">>]}
NetworkPool ==
    {[name |-> "n", wires |-> <<>>, outputs |-> <<>>],
     [name |-> "w",
      wires |-> <<[source |-> "i", target |-> "o"]>>,
      outputs |-> <<[name |-> "o", source |-> "i"]>>]}

\* The modules of at most n declarations over the five lists.
WithNetworks(n, m) ==
    {[m EXCEPT !.networks = x] : x \in SeqsUpTo(NetworkPool, n)}
WithBlocks(n, m) ==
    UNION {WithNetworks(n - Len(x), [m EXCEPT !.blocks = x]) :
             x \in SeqsUpTo(BlockPool, n)}
WithRungs(n, m) ==
    UNION {WithBlocks(n - Len(x), [m EXCEPT !.rungs = x]) :
             x \in SeqsUpTo(RungPool, n)}
WithCoils(n, m) ==
    UNION {WithRungs(n - Len(x), [m EXCEPT !.coils = x]) :
             x \in SeqsUpTo(CoilPool, n)}
EmitInputs(n) ==
    UNION {WithCoils(n - Len(x), [EmptyModule("m") EXCEPT !.signals = x]) :
             x \in SeqsUpTo(SignalPool, n)}

InitEmit ==
    /\ tokens = <<>>
    /\ line = 1
    /\ column = 1
    /\ pos = 0
    /\ stage = "emit"
    /\ module \in EmitInputs(MaxEmitItems)
    /\ error = NoError
    /\ ir = <<>>
    /\ written = <<>>
    /\ hasher = DefaultHasher
    /\ source = <<>>
    /\ offset = 0

NextEmit == Emit \/ Write

SpecEmit == InitEmit /\ [][NextEmit]_vars

\* SpecCompile: the pipeline of compile_command on the sources made of
\* `module m` and clauses of a pool: declarations with and without
\* parameters and modifiers, rungs with and without arguments and actions,
\* on declared and on undeclared names.
ArgLexemes == <<KwLParen, Num7, KwComma, Ident("x"), KwRParen>>
ClausePool ==
    {<<KwSignal, Ident("a")>>,
     <<KwSignal, Ident("b"), KwLParen, Ident("x"), KwComma, Ident("y"),
       KwRParen, KwColon, Ident("t")>>,
     <<KwCoil, Ident("c"), KwLParen, Ident("x"), KwRParen, IdLatching>>,
     <<KwRung, Ident("r"), KwColon, KwWhen, KwNO, Ident("a"), KwThen,
       KwEnergise, Ident("c")>>,
     <<KwRung, Ident("q"), KwColon, KwWhen, Ident("a"), KwAnd, KwNot,
       Ident("b"), KwOr, KwNC, Ident("a"), KwThen, KwEnergise, Ident("c")>>
       \o ArgLexemes \o <<KwDeEnergise, Ident("c")>>,
     <<KwRung, Ident("r"), KwColon, KwWhen, KwNO, Ident("b")>> \o ArgLexemes
       \o <<KwThen>>,
     <<KwRung, Ident("u"), KwColon, KwWhen, Ident("b")>> \o ArgLexemes
       \o <<KwThen>>,
     <<KwRung, Ident("v"), KwColon, KwWhen, KwNO, Ident("z"), KwThen,
       KwEnergise, Ident("c")>>}

RECURSIVE Flatten(_)
Flatten(ss) == IF ss = <<>> THEN <<>> ELSE Head(ss) \o Flatten(Tail(ss))

SourceOf(cs) == <<KwModule, Ident("m")>> \o Flatten(cs)
Sources(n) == {SourceOf(cs) : cs \in SeqsUpTo(ClausePool, n)}

\* The demo source: module demo, signal start, coil motor and
\* `rung r1: when NO start then energise motor`.
Word(s, n) == [tok |-> "Identifier", str |-> s, num |-> 0, len |-> n, nl |-> 0]
DemoSource ==
    <<KwModule, Word("demo", 4), KwSignal, Word("start", 5),
      KwCoil, Word("motor", 5),
      KwRung, Word("r1", 2), KwColon, KwWhen, KwNO, Word("start", 5),
      KwThen, KwEnergise, Word("motor", 5)>>

\* Parser::new has read the source whose lexemes are l.
Lexed(l) ==
    /\ tokens = l.tokens
    /\ line = l.line
    /\ column = l.column

InitCompile ==
    /\ \/ \E n \in 0 .. MaxSourceDecls : \E cs \in [1 .. n -> ClausePool] :
             Lexed(LexAll(SourceOf(cs), 1, 1, 1))
       \/ Lexed(LexAll(DemoSource, 1, 1, 1))
    /\ pos = 0
    /\ stage = "lex"
    /\ module = NoModule
    /\ error = NoError
    /\ ir = <<>>
    /\ written = <<>>
    /\ hasher \in Hashers
    /\ source = <<>>
    /\ offset = 0

NextCompile == Parse \/ Resolve \/ Emit \/ Write

SpecCompile == InitCompile /\ [][NextCompile]_vars

\* SpecCursor: parse on the token lists cut out of the sources of
\* SpecCompile: a source of at most n clauses, cut after any of its lexemes,
\* with or without one more lexeme of any class behind the cut.
CursorSources(n) ==
    UNION {{SubSeq(src, 1, k) \o tail :
               k \in 0 .. Len(src),
               tail \in {<<>>} \cup {<<lx>> : lx \in ModuleLexemes}} :
           src \in Sources(n)}

InitCursor ==
    /\ \E src \in CursorSources(MaxCursorDecls) :
          /\ tokens = LexAll(src, 1, 1, 1).tokens
          /\ line = LexAll(src, 1, 1, 1).line
          /\ column = LexAll(src, 1, 1, 1).column
    /\ pos = 0
    /\ stage = "lex"
    /\ module = NoModule
    /\ error = NoError
    /\ ir = <<>>
    /\ written = <<>>
    /\ hasher = DefaultHasher
    /\ source = <<>>
    /\ offset = 0

NextCursor == Parse

SpecCursor == InitCursor /\ [][NextCursor]_vars

\* SpecString: Parser::new on every text of at most MaxChars characters of
\* the alphabet.
RECURSIVE TextsOfLen(_)
TextsOfLen(n) ==
    IF n = 0 THEN {<<>>}
    ELSE {Append(t, c) : t \in TextsOfLen(n - 1), c \in Alphabet}

InitString ==
    /\ tokens = <<>>
    /\ line = 1
    /\ column = 1
    /\ pos = 0
    /\ stage = "lex"
    /\ module = NoModule
    /\ error = NoError
    /\ ir = <<>>
    /\ written = <<>>
    /\ hasher = DefaultHasher
    /\ \E n \in 0..MaxChars : source \in TextsOfLen(n)
    /\ offset = 0

NextString == LexSlice \/ LexSkip

SpecString == InitString /\ [][NextString]_vars

\* SpecLines: Parser::new on every text of at most MaxChars characters out
\* of quotes, letters, newlines and slashes.
LineAlphabet == {Quote, Letter, Newline, Slash}
RECURSIVE TextsOver(_, _)
TextsOver(A, n) ==
    IF n = 0 THEN {<<>>}
    ELSE {Append(t, c) : t \in TextsOver(A, n - 1), c \in A}

InitLines ==
    /\ tokens = <<>>
    /\ line = 1
    /\ column = 1
    /\ pos = 0
    /\ stage = "lex"
    /\ module = NoModule
    /\ error = NoError
    /\ ir = <<>>
    /\ written = <<>>
    /\ hasher = DefaultHasher
    /\ \E n \in 0..MaxChars : source \in TextsOver(LineAlphabet, n)
    /\ offset = 0

NextLines == LexSlice \/ LexSkip \/ LexEnd

SpecLines == InitLines /\ [][NextLines]_vars
-----------------------------------------------------------------------------
(* Vocabulary of the properties.                                           *)

\* parse returned Ok (the pipeline is past the parser and did not fail in it).
ParsedOk ==
    \/ stage \in {"resolve", "emit", "write", "done"}
    \/ stage = "failed" /\ error.kind \in {"NameResolution", "Io"}

\* SpecGuard, once the rung parsed: its guard, and the tokens of the guard in
\* the source, from the one after `when` to the `then` that ends it.
Guard == module.rungs[1].guard
GuardFrom == Len(RungHeader) + 1
GuardTo ==
    CHOOSE i \in GuardFrom .. Len(tokens) :
        /\ tokens[i].tok = "Then"
        /\ \A j \in GuardFrom .. i - 1 : tokens[j].tok # "Then"
GuardKinds == [k \in 1 .. GuardTo - Len(RungHeader) |-> tokens[Len(RungHeader) + k].tok]
IdentAt == {i \in GuardFrom .. GuardTo : tokens[i].tok = "Identifier"}
\* The NO contact on the k-th identifier after `when`.
NthContact(k) ==
    LET i == CHOOSE j \in IdentAt : Cardinality({h \in IdentAt : h <= j}) = k
    IN Contact(tokens[i].str, "NO", <<>>)

\* Some contact of the guard is written with an argument list.
HasArgumentList == \E i \in IdentAt : tokens[i + 1].tok = "LParen"

\* Every node of a guard tree.
RECURSIVE Nodes(_)
Nodes(t) ==
    {t} \cup (CASE t.kind \in {"And", "Or"} -> Nodes(t.left) \cup Nodes(t.right)
                [] t.kind = "Not" -> Nodes(t.expr)
                [] OTHER -> {})

\* The contact names of a guard tree, left to right.
RECURSIVE Leaves(_)
Leaves(t) ==
    CASE t.kind \in {"And", "Or"} -> Leaves(t.left) \o Leaves(t.right)
      [] t.kind = "Not" -> Leaves(t.expr)
      [] OTHER -> <<t.name>>

\* The `(` tokens that open a parenthesised sub-guard rather than an argument
\* list (an argument list follows the contact's identifier), and the trees of
\* the sub-guards between such a `(` and its `)`.
GroupOpens ==
    {i \in GuardFrom .. GuardTo :
        tokens[i].tok = "LParen" /\ tokens[i - 1].tok # "Identifier"}
ParenTrees ==
    {parse_guard(tokens, i).val :
        i \in {j \in GroupOpens :
                 /\ parse_guard(tokens, j).ok
                 /\ peek(tokens, parse_guard(tokens, j).pos).tok = "RParen"}}

-----------------------------------------------------------------------------
(* C1: AND binds tighter than OR.  Whenever a rung parses: the guard       *)
(* `NO a OR NO b AND NO c` is Or(Contact a, And(Contact b, Contact c)),     *)
(* the guard `NO a AND NO b OR NO c` is Or(And(Contact a, Contact b),       *)
(* Contact c), and an Or node that is a direct child of an And node is the *)
(* tree of a parenthesised sub-guard of the source.                        *)
C1_AndBindsTighter ==
    stage = "resolve" =>
      /\ GuardKinds = <<"NO", "Identifier", "Or", "NO", "Identifier", "And",
                        "NO", "Identifier", "Then">>
            => Guard = OrNode(NthContact(1), AndNode(NthContact(2), NthContact(3)))
      /\ GuardKinds = <<"NO", "Identifier", "And", "NO", "Identifier", "Or",
                        "NO", "Identifier", "Then">>
            => Guard = OrNode(AndNode(NthContact(1), NthContact(2)), NthContact(3))
      /\ \A n \in Nodes(Guard) :
            n.kind = "And" =>
              \A c \in {n.left, n.right} : c.kind = "Or" => c \in ParenTrees

\* `NO a OR NO b AND NO c then` has been parsed.
C1_Witness ==
    /\ stage = "resolve"
    /\ GuardKinds = <<"NO", "Identifier", "Or", "NO", "Identifier", "And",
                      "NO", "Identifier", "Then">>
    /\ Guard.kind = "Or"
    /\ Guard.right.kind = "And"
-----------------------------------------------------------------------------
(* C2: NOT binds to exactly the following primary.  Whenever a rung        *)
(* parses: `NOT a AND b` is And(Not(Contact a), Contact b), `NOT (a AND b)` *)
(* is Not(And(Contact a, Contact b)), and the operand of every Not node is *)
(* a Contact or the tree of a parenthesised sub-guard of the source.       *)
C2_NotBindsToPrimary ==
    stage = "resolve" =>
      /\ GuardKinds = <<"Not", "Identifier", "And", "Identifier", "Then">>
            => Guard = AndNode(NotNode(NthContact(1)), NthContact(2))
      /\ GuardKinds = <<"Not", "LParen", "Identifier", "And", "Identifier",
                        "RParen", "Then">>
            => Guard = NotNode(AndNode(NthContact(1), NthContact(2)))
      /\ \A n \in Nodes(Guard) :
            n.kind = "Not" => n.expr.kind = "Contact" \/ n.expr \in ParenTrees

\* `NOT ( a AND b ) then` has been parsed.
C2_Witness ==
    /\ stage = "resolve"
    /\ GuardKinds = <<"Not", "LParen", "Identifier", "And", "Identifier",
                      "RParen", "Then">>
    /\ Guard.kind = "Not"
    /\ Guard.expr.kind = "And"

-----------------------------------------------------------------------------
(* C3: chains of one operator fold to the left in source order.  Whenever  *)
(* a rung parses: a guard `x1 OP x2 ... OP xn` of contacts joined by one   *)
(* operator is OP(...OP(OP(x1, x2), x3)..., xn); the right child of an Or  *)
(* (And) node is an Or (And) node only as the tree of a parenthesised      *)
(* sub-guard; and without argument lists the leaves of the guard, read     *)
(* left to right, are the identifiers of the source in order.              *)
RECURSIVE LeftFold(_, _)
LeftFold(op, n) ==
    IF n = 1 THEN NthContact(1)
    ELSE [kind |-> op, left |-> LeftFold(op, n - 1), right |-> NthContact(n)]

\* The guard is x1 op x2 ... op xn then, each xi a bare identifier.
IsChain(op) ==
    /\ Len(GuardKinds) >= 4
    /\ Len(GuardKinds) % 2 = 0
    /\ \A k \in 1 .. Len(GuardKinds) - 1 :
          GuardKinds[k] = IF k % 2 = 1 THEN "Identifier" ELSE op
    /\ GuardKinds[Len(GuardKinds)] = "Then"

C3_ChainsFoldLeft ==
    stage = "resolve" =>
      /\ \A op \in {"And", "Or"} :
            IsChain(op) => Guard = LeftFold(op, Len(GuardKinds) \div 2)
      /\ \A n \in Nodes(Guard) :
            n.kind \in {"And", "Or"} /\ n.right.kind = n.kind
              => n.right \in ParenTrees
      /\ ~HasArgumentList
            => Leaves(Guard) = [k \in 1 .. Cardinality(IdentAt) |-> NthContact(k).name]

\* `a OR b OR c then` has been parsed.
C3_Witness ==
    /\ stage = "resolve"
    /\ IsChain("Or")
    /\ Len(GuardKinds) = 6
    /\ Guard.left.kind = "Or"

-----------------------------------------------------------------------------
(* C4: sugar equivalence.  Whenever a rung whose contacts carry no         *)
(* argument list parses, the same source with every `NO x` written as the  *)
(* bare `x` parses to the identical module, so to the identical guard.     *)

\* toks without the NO tokens that stand before an identifier.
Sugared(toks) ==
    LET keep == {i \in 1 .. Len(toks) :
                   ~(toks[i].tok = "NO" /\ i < Len(toks) /\ toks[i + 1].tok = "Identifier")}
        nth(k) == CHOOSE i \in keep : Cardinality({h \in keep : h <= i}) = k
    IN [k \in 1 .. Cardinality(keep) |-> toks[nth(k)]]


C4_SugarEquivalence ==
    stage = "resolve" /\ ~HasArgumentList =>
      /\ parse(Sugared(tokens)).ok
      /\ parse(Sugared(tokens)).val = module
      /\ \A n \in Nodes(Guard) :
            n.kind = "Contact" => n.contact_type = "NO" /\ n.arguments = <<>>

\* A guard with an explicit NO under NOT inside parentheses has been parsed.
C4_Witness ==
    /\ stage = "resolve"
    /\ ~HasArgumentList
    /\ \E i \in GuardFrom .. GuardTo - 2 :
          /\ tokens[i].tok = "LParen"
          /\ tokens[i + 1].tok = "Not"
          /\ tokens[i + 2].tok = "NO"
    /\ Sugared(tokens) # tokens

-----------------------------------------------------------------------------
(* C5: a bare identifier takes the argument list an explicit contact       *)
(* takes.  Whenever a rung with a contact that carries arguments parses,   *)
(* the same source with every `NO x` written as the bare `x` parses to the *)
(* identical module.                                                       *)
C5_BareContactArguments ==
    /\ stage = "resolve"
    /\ \E n \in Nodes(Guard) : n.kind = "Contact" /\ n.arguments # <<>>
    => /\ parse(Sugared(tokens)).ok
       /\ parse(Sugared(tokens)).val = module
-----------------------------------------------------------------------------
(* C6: parse reads the whole token list or fails.  Whenever parse returned *)
(* Ok, the parser position is the number of tokens.                        *)
C6_ConsumesAllTokens == ParsedOk => pos = Len(tokens)

-----------------------------------------------------------------------------
(* C7: a token of the wrong class fails the parse.  Whenever parse         *)
(* returned Ok: the token read after `context :` is a String, every token  *)
(* read as an entry of a signal's or coil's parameter list is an           *)
(* Identifier, and the token read after a signal's `:` is an Identifier.   *)
ContextIsString ==
    \A i \in 1 .. pos - 2 :
        tokens[i].tok = "Context" /\ tokens[i + 1].tok = "Colon"
          => tokens[i + 2].tok = "String"

\* The tokens of the parameter list opened at `(`, token i: up to the first `)`.
ParamTokens(i) ==
    {k \in i + 1 .. pos : \A j \in i + 1 .. k : tokens[j].tok # "RParen"}

ParamsAreIdentifiers ==
    \A i \in 3 .. pos :
        tokens[i].tok = "LParen" /\ tokens[i - 2].tok \in {"Signal", "Coil"}
          => \A k \in ParamTokens(i) :
                /\ tokens[k].tok \in {"Identifier", "Comma"}
                /\ tokens[k - 1].tok \in {"LParen", "Comma"}
                     => tokens[k].tok = "Identifier"

SignalTypeIsIdentifier ==
    \A i \in 3 .. pos - 1 :
        /\ tokens[i].tok = "Colon"
        /\ tokens[i - 2].tok = "Signal" \/ tokens[i - 1].tok = "RParen"
        => tokens[i + 1].tok = "Identifier"

C7_MismatchFails ==
    ParsedOk => ContextIsString /\ ParamsAreIdentifiers /\ SignalTypeIsIdentifier

-----------------------------------------------------------------------------
(* C8: a ParseError carries the position of the offending token.  Whenever *)
(* parse failed, the error's line and column are those stored with the     *)
(* token at which the mismatch was detected, or with the last token when   *)
(* the mismatch is the end of the input.                                   *)
C8_ErrorPosition ==
    stage = "failed" /\ error.kind = "Parse" /\ Len(tokens) > 0 =>
      LET at == IF error.at <= Len(tokens) THEN error.at ELSE Len(tokens) IN
      /\ error.line = tokens[at].line
      /\ error.column = tokens[at].col

-----------------------------------------------------------------------------
(* Vocabulary of the resolver's properties.                                *)

DeclNames(decls) == {decls[i].name : i \in DOMAIN decls}
\* The names a list of declarations declares more than once.
DupNames(decls) ==
    {decls[i].name :
        i \in {j \in DOMAIN decls : \E k \in 1 .. j - 1 : decls[k].name = decls[j].name}}
ContactNames(g) == {n.name : n \in {x \in Nodes(g) : x.kind = "Contact"}}
\* The names the contacts of m use that no signal declares, and the names
\* the actions of m target that no coil declares.
MissingSignals(m) ==
    UNION {ContactNames(m.rungs[i].guard) : i \in DOMAIN m.rungs}
      \ DeclNames(m.signals)
MissingCoils(m) ==
    UNION {{m.rungs[i].actions[j].coil : j \in DOMAIN m.rungs[i].actions} :
              i \in DOMAIN m.rungs}
      \ DeclNames(m.coils)
\* resolve_names has returned.
Resolved == stage = "emit" \/ (stage = "failed" /\ error.kind = "NameResolution")

-----------------------------------------------------------------------------
(* C9: duplicates are rejected, per namespace.  Once resolve_names         *)
(* returned: if two signals share a name it failed with "Duplicate signal  *)
(* name" on a repeated signal name; else if two coils share a name it      *)
(* failed with "Duplicate coil name" on a repeated coil name; and a module *)
(* in which a signal and a coil share a name, with no name repeated inside *)
(* either list and no undefined reference, resolved.                       *)
C9_DuplicateRejection ==
    Resolved =>
      /\ DupNames(module.signals) # {} =>
            /\ stage = "failed"
            /\ error.message[1] = "Duplicate signal name"
            /\ error.message[2] \in DupNames(module.signals)
      /\ DupNames(module.signals) = {} /\ DupNames(module.coils) # {} =>
            /\ stage = "failed"
            /\ error.message[1] = "Duplicate coil name"
            /\ error.message[2] \in DupNames(module.coils)
      /\ /\ DeclNames(module.signals) \cap DeclNames(module.coils) # {}
         /\ DupNames(module.signals) = {}
         /\ DupNames(module.coils) = {}
         /\ MissingSignals(module) = {}
         /\ MissingCoils(module) = {}
         => stage = "emit"

\* A module with a signal and a coil of one name, and a rung, has resolved.
C9_Witness ==
    /\ stage = "emit"
    /\ DeclNames(module.signals) \cap DeclNames(module.coils) # {}
    /\ module.rungs # <<>>

-----------------------------------------------------------------------------
(* C10: undefined references are rejected.                                 *)

\* The claim as stated: once resolve_names returned, for every identifier a
\* contact uses without a signal declaring it, and every identifier an
\* action targets without a coil declaring it, resolve_names failed with a
\* NameResolutionError whose message names that identifier.
C10_EveryMissingNamed ==
    Resolved =>
      \A x \in MissingSignals(module) \cup MissingCoils(module) :
          stage = "failed" /\ error.message[2] = x

\* C10, amended: once resolve_names returned, if a contact at any depth uses
\* a name no signal declares (a coil of that name does not count) or an
\* action targets a name no coil declares (a signal of that name does not
\* count), resolve_names failed with a NameResolutionError; and when no
\* signal name and no coil name is declared twice, the error is "Undefined
\* signal" on one of the missing signal names or "Undefined coil" on one of
\* the missing coil names.
C10_UndefinedRejected ==
    Resolved /\ MissingSignals(module) \cup MissingCoils(module) # {} =>
      /\ stage = "failed"
      /\ DupNames(module.signals) = {} /\ DupNames(module.coils) = {} =>
            \/ /\ error.message[1] = "Undefined signal"
               /\ error.message[2] \in MissingSignals(module)
            \/ /\ error.message[1] = "Undefined coil"
               /\ error.message[2] \in MissingCoils(module)

\* resolve_names failed on a contact, below an operator of the guard, whose
\* name only a coil declares.
C10_Witness ==
    /\ stage = "failed"
    /\ error.message[1] = "Undefined signal"
    /\ error.message[2] \in DeclNames(module.coils)
    /\ module.rungs[1].guard.kind # "Contact"

-----------------------------------------------------------------------------
(* C11: resolver soundness.  Whenever resolve_names returned Ok for the    *)
(* module: no two signals share a name, no two coils share a name, every   *)
(* Contact of every rung guard names a declared signal and every Action    *)
(* targets a declared coil; and the same holds of every IR document that   *)
(* emit_ir produced after it.                                              *)

\* resolve_names returned Ok.
ResolvedOk == stage \in {"emit", "write", "done"} \/ ir # <<>>

\* The declarations of an IR document, its top-level lists unwrapped.
IRLists(doc) ==
    [signals |-> doc.module.signals[1], coils |-> doc.module.coils[1],
     rungs |-> doc.module.rungs[1]]

NamesSound(m) ==
    /\ DupNames(m.signals) = {}
    /\ DupNames(m.coils) = {}
    /\ MissingSignals(m) = {}
    /\ MissingCoils(m) = {}

C11_ResolverSoundness ==
    /\ ResolvedOk => NamesSound(module)
    /\ ir # <<>> => NamesSound(IRLists(ir[1]))

\* An IR document has been emitted for a module of two signals whose first
\* rung has a binary guard and an action.
C11_Witness ==
    /\ ir # <<>>
    /\ Len(module.signals) = 2
    /\ Len(module.rungs) >= 1
    /\ module.rungs[1].guard.kind \in {"And", "Or"}
    /\ module.rungs[1].actions # <<>>

-----------------------------------------------------------------------------
(* C12: one error, the first violation met.  Once resolve_names returned   *)
(* for a module with a violation, it failed with the message of the first  *)
(* one in this order: the repeated signal declaration that comes first in  *)
(* the signal list; else the repeated coil declaration that comes first in *)
(* the coil list; else the first undefined reference met walking the rungs *)
(* in order, the contacts of a rung's guard depth-first left to right and  *)
(* then the rung's actions in order.                                       *)

\* The name of the first declaration of decls that repeats an earlier one.
FirstDup(decls) ==
    LET repeats == {j \in DOMAIN decls :
                      \E k \in 1 .. j - 1 : decls[k].name = decls[j].name}
        j == CHOOSE i \in repeats : \A h \in repeats : i <= h
    IN decls[j].name

\* The references of a list of rungs in traversal order, each with the
\* message of its failure.
RECURSIVE AllRefs(_)
AllRefs(rungs) ==
    IF rungs = <<>> THEN <<>>
    ELSE [i \in 1 .. Len(Leaves(Head(rungs).guard)) |->
            <<"Undefined signal", Leaves(Head(rungs).guard)[i]>>]
         \o [i \in 1 .. Len(Head(rungs).actions) |->
            <<"Undefined coil", Head(rungs).actions[i].coil>>]
         \o AllRefs(Tail(rungs))

\* The positions in AllRefs of the references to undeclared names.
UndefinedRefs(m) ==
    {i \in DOMAIN AllRefs(m.rungs) :
        AllRefs(m.rungs)[i][2] \notin
          (IF AllRefs(m.rungs)[i][1] = "Undefined signal"
           THEN DeclNames(m.signals) ELSE DeclNames(m.coils))}

HasViolation(m) ==
    DupNames(m.signals) # {} \/ DupNames(m.coils) # {} \/ UndefinedRefs(m) # {}

FirstViolation(m) ==
    IF DupNames(m.signals) # {}
    THEN <<"Duplicate signal name", FirstDup(m.signals)>>
    ELSE IF DupNames(m.coils) # {}
    THEN <<"Duplicate coil name", FirstDup(m.coils)>>
    ELSE AllRefs(m.rungs)[CHOOSE i \in UndefinedRefs(m) :
                             \A h \in UndefinedRefs(m) : i <= h]

-----------------------------------------------------------------------------
(* C13: the five top-level lists are always present.  Whenever emit_ir     *)
(* returned for a module, each of signals, coils, rungs, blocks and        *)
(* networks of the IR module is a present list with as many entries as the *)
(* list of the AST, an empty list when that one is empty.                  *)
Present(option, n) == Len(option) = 1 /\ Len(option[1]) = n

C13_TopLevelListsPresent ==
    ir # <<>> =>
      /\ Present(ir[1].module.signals, Len(module.signals))
      /\ Present(ir[1].module.coils, Len(module.coils))
      /\ Present(ir[1].module.rungs, Len(module.rungs))
      /\ Present(ir[1].module.blocks, Len(module.blocks))
      /\ Present(ir[1].module.networks, Len(module.networks))

\* emit_ir returned for the module with no declarations at all.
C13_Witness ==
    /\ ir # <<>>
    /\ module = EmptyModule("m")
    /\ ir[1].module.signals = <<<<>>>>

-----------------------------------------------------------------------------
(* C14: nested optional lists are absent exactly when empty.  Whenever     *)
(* emit_ir returned for a module: the parameters of every signal and coil, *)
(* the arguments of every action and of every contact, the inputs and      *)
(* outputs of every block and the wires and outputs of every network are   *)
(* None when the list of the AST is empty and Some of the same elements    *)
(* otherwise.                                                              *)
Sparse(list) == IF list = <<>> THEN <<>> ELSE <<list>>

\* The contacts of an emitted guard and of the guard of the AST agree on the
\* sparse argument list, node by node.
RECURSIVE ContactsSparse(_, _)
ContactsSparse(emitted, guard) ==
    CASE guard.kind = "Contact" -> emitted.arguments = Sparse(guard.arguments)
      [] guard.kind \in {"And", "Or"} ->
           /\ ContactsSparse(emitted.left, guard.left)
           /\ ContactsSparse(emitted.right, guard.right)
      [] guard.kind = "Not" -> ContactsSparse(emitted.expr, guard.expr)

C14_NestedListsSparse ==
    ir # <<>> =>
      LET d == ir[1].module IN
      /\ \A i \in DOMAIN module.signals :
            d.signals[1][i].parameters = Sparse(module.signals[i].parameters)
      /\ \A i \in DOMAIN module.coils :
            d.coils[1][i].parameters = Sparse(module.coils[i].parameters)
      /\ \A i \in DOMAIN module.rungs :
            /\ ContactsSparse(d.rungs[1][i].guard, module.rungs[i].guard)
            /\ \A j \in DOMAIN module.rungs[i].actions :
                  d.rungs[1][i].actions[j].arguments
                    = Sparse(module.rungs[i].actions[j].arguments)
      /\ \A i \in DOMAIN module.blocks :
            /\ d.blocks[1][i].inputs = Sparse(module.blocks[i].inputs)
            /\ d.blocks[1][i].outputs = Sparse(module.blocks[i].outputs)
      /\ \A i \in DOMAIN module.networks :
            /\ d.networks[1][i].wires = Sparse(module.networks[i].wires)
            /\ d.networks[1][i].outputs = Sparse(module.networks[i].outputs)

-----------------------------------------------------------------------------
(* Vocabulary of the properties of a compiled source: what the token list  *)
(* declares, read off the tokens.                                          *)

\* The positions, in order, of the tokens of the kinds kws among tokens
\* from .. to.
PositionsIn(kws, from, to) ==
    SelectSeq([k \in 1 .. to - from + 1 |-> from + k - 1],
              LAMBDA i : tokens[i].tok \in kws)
Positions(kws) == PositionsIn(kws, 1, Len(tokens))

ClauseKeywords == {"Signal", "Coil", "Rung", "Block", "Network", "Context"}
\* The last token of the clause whose keyword is token i.
ClauseEnd(i) ==
    IF \E j \in i + 1 .. Len(tokens) : tokens[j].tok \in ClauseKeywords
    THEN (CHOOSE j \in i + 1 .. Len(tokens) :
            /\ tokens[j].tok \in ClauseKeywords
            /\ \A h \in i + 1 .. j - 1 : tokens[h].tok \notin ClauseKeywords) - 1
    ELSE Len(tokens)

\* The names declared by the clauses of keyword kw, in source order.
DeclaredNames(kw) ==
    [k \in DOMAIN Positions({kw}) |-> tokens[Positions({kw})[k] + 1].str]

\* The argument or parameter a token writes.
ItemOf(t) ==
    CASE t.tok = "Identifier" -> [kind |-> "Identifier", str |-> t.str]
      [] t.tok = "Number"     -> [kind |-> "Number", num |-> t.num]
      [] t.tok = "String"     -> [kind |-> "String", str |-> t.str]
      [] t.tok = "True"       -> [kind |-> "Boolean", b |-> TRUE]
      [] t.tok = "False"      -> [kind |-> "Boolean", b |-> FALSE]

\* The items of the list in parentheses that follows the name at token i
\* (none when no `(` follows): the tokens up to the first `)` but the commas.
ListItems(i) ==
    IF i + 1 <= Len(tokens) /\ tokens[i + 1].tok = "LParen"
    THEN LET close == CHOOSE j \in i + 2 .. Len(tokens) :
                        /\ tokens[j].tok = "RParen"
                        /\ \A h \in i + 2 .. j - 1 : tokens[h].tok # "RParen"
             at == PositionsIn({"Identifier", "Number", "String", "True", "False"},
                               i + 2, close - 1)
         IN [k \in DOMAIN at |-> ItemOf(tokens[at[k]])]
    ELSE <<>>

\* Token j stands inside a list in parentheses that follows a name.
InList(j) ==
    \E o \in 2 .. j - 1 :
        /\ tokens[o].tok = "LParen"
        /\ tokens[o - 1].tok = "Identifier"
        /\ \A h \in o + 1 .. j - 1 : tokens[h].tok # "RParen"

\* In the rung whose keyword is token i: the `then`, the names of the
\* contacts of the guard and the keywords of the actions, in source order.
ThenOf(i) == PositionsIn({"Then"}, i, ClauseEnd(i))[1]
ContactsOf(i) ==
    SelectSeq(PositionsIn({"Identifier"}, i + 4, ThenOf(i)),
              LAMBDA j : ~InList(j))
ActionsOf(i) == PositionsIn({"Energise", "DeEnergise"}, ThenOf(i), ClauseEnd(i))

Unwrap(option) == IF option = <<>> THEN <<>> ELSE option[1]
Strs(items) == [k \in DOMAIN items |-> items[k].str]

\* The contacts of a guard tree, left to right.
RECURSIVE ContactSeq(_)
ContactSeq(t) ==
    CASE t.kind \in {"And", "Or"} -> ContactSeq(t.left) \o ContactSeq(t.right)
      [] t.kind = "Not" -> ContactSeq(t.expr)
      [] OTHER -> <<t>>

\* An emitted guard has the shape, the operand order and the contacts of a
\* guard of the AST.
RECURSIVE SameShape(_, _)
SameShape(emitted, guard) ==
    /\ emitted.kind = guard.kind
    /\ CASE guard.kind = "Contact" ->
              /\ emitted.name = guard.name
              /\ emitted.contact_type = guard.contact_type
              /\ Unwrap(emitted.arguments) = guard.arguments
         [] guard.kind \in {"And", "Or"} ->
              /\ SameShape(emitted.left, guard.left)
              /\ SameShape(emitted.right, guard.right)
         [] guard.kind = "Not" -> SameShape(emitted.expr, guard.expr)

-----------------------------------------------------------------------------
(* C15: emission preserves order and multiplicity.  Whenever a source      *)
(* compiled: the emitted signals, coils, rungs, blocks and networks are    *)
(* the declarations of the source in order, one entry each; the parameters *)
(* of a signal or coil are the names in its parameter list in order; the   *)
(* actions of a rung are its actions in order with their arguments in      *)
(* order; the contacts of a guard are, left to right, the contacts of the  *)
(* source with their arguments in order; and the emitted guard has the     *)
(* shape and operand order of the parsed guard.                            *)
EmittedNames(option) == [k \in DOMAIN option[1] |-> option[1][k].name]

ParametersInOrder(kw, emitted) ==
    \A k \in DOMAIN emitted :
        Unwrap(emitted[k].parameters) = Strs(ListItems(Positions({kw})[k] + 1))

ActionsInOrder(i, emitted) ==
    /\ Len(emitted) = Len(ActionsOf(i))
    /\ \A k \in DOMAIN emitted :
          /\ emitted[k].action_type =
               (IF tokens[ActionsOf(i)[k]].tok = "Energise"
                THEN "energise" ELSE "de_energise")
          /\ emitted[k].coil = tokens[ActionsOf(i)[k] + 1].str
          /\ Unwrap(emitted[k].arguments) = ListItems(ActionsOf(i)[k] + 1)

ContactsInOrder(i, emitted) ==
    /\ Len(ContactSeq(emitted)) = Len(ContactsOf(i))
    /\ \A k \in DOMAIN ContactSeq(emitted) :
          /\ ContactSeq(emitted)[k].name = tokens[ContactsOf(i)[k]].str
          /\ Unwrap(ContactSeq(emitted)[k].arguments) = ListItems(ContactsOf(i)[k])

-----------------------------------------------------------------------------
(* C16: determinism.  The outcome of parse, resolve_names and emit_ir on a *)
(* source (the error, or the IR) is the same in every process, whatever    *)
(* random state its hash maps got; emit_ir applied again to the module     *)
(* yields the IR it yielded; and the file written holds that IR.           *)

\* The outcome of the three stages on toks in a process of random state h.
OutcomeOfResolve(m, r) ==
    IF r.ok THEN [error |-> NoError, ir |-> <<emit_ir(m).val>>]
    ELSE [error |-> r.err, ir |-> <<>>]
OutcomeOfParse(p, h) ==
    IF p.ok THEN OutcomeOfResolve(p.val, ResolveFrom(p.val, SymbolTableWith(h)))
    ELSE [error |-> p.err, ir |-> <<>>]
Outcome(toks, h) == OutcomeOfParse(parse(toks), h)

\* The three stages have run, or one of them failed.
Compiled == stage \in {"write", "done"} \/ (stage = "failed" /\ error.kind # "Io")

-----------------------------------------------------------------------------
(* C17: fail-fast pipeline.  The stages run in the order parse,            *)
(* resolve_names, emit_ir, write, each only after the one before returned  *)
(* Ok; once a stage failed nothing runs any more; the error is the error   *)
(* of the stage that failed; and after a failure of parse or resolve_names *)
(* no IR exists and nothing is written, after a failure of the write       *)
(* nothing is written.                                                     *)
StageOrder ==
    /\ stage # "failed"
    /\ stage' \in {"resolve", "failed"} => stage \in {"lex", "resolve", "write"}
    /\ module' # module => stage = "lex" /\ stage' = "resolve"
    /\ stage' = "emit" => stage = "resolve"
    /\ ir' # ir => stage = "emit" /\ stage' = "write"
    /\ written' # written => stage = "write" /\ stage' = "done"
    /\ stage' = "failed" =>
          /\ ir' = ir /\ written' = written
          /\ error'.kind = CASE stage = "lex" -> "Parse"
                             [] stage = "resolve" -> "NameResolution"
                             [] stage = "emit" -> "Emission"
                             [] stage = "write" -> "Io"
                             [] OTHER -> "None"
    /\ stage' # "failed" => error' = NoError

NothingAfterFailure ==
    /\ stage = "failed" /\ error.kind \in {"Parse", "NameResolution"}
         => ir = <<>> /\ written = <<>>
    /\ stage = "failed" => written = <<>> /\ error.kind # "None"
    /\ written # <<>> => stage = "done" /\ written = ir
    /\ ir # <<>> => stage \in {"write", "done", "failed"}

C17_FailFast == []NothingAfterFailure /\ [][StageOrder]_vars

\* The rung on the undeclared signal z has failed at resolution, with no IR
\* and nothing written.
C17_Witness ==
    /\ stage = "failed"
    /\ error.message = <<"Undefined signal", "z">>
    /\ ir = <<>>
    /\ written = <<>>

-----------------------------------------------------------------------------
(* C18: string literal escapes.  A double-quoted literal whose body is     *)
(* made of ordinary characters, backslash-quote and backslash-backslash is *)
(* lexed as one String token, whose value is the body with each            *)
(* backslash-quote decoded to a quote and each backslash-backslash to one  *)
(* backslash.                                                              *)

\* The body is a sequence of ordinary characters and the two escapes.
RECURSIVE EscapedBody(_)
EscapedBody(b) ==
    IF b = <<>> THEN TRUE
    ELSE IF Head(b) = Letter THEN EscapedBody(Tail(b))
    ELSE IF Head(b) = Backslash
         THEN Len(b) >= 2 /\ b[2] \in {Quote, Backslash}
              /\ EscapedBody(Tail(Tail(b)))
    ELSE FALSE

\* Each escape of the body replaced by the character it stands for.
RECURSIVE Decoded(_)
Decoded(b) ==
    IF b = <<>> THEN <<>>
    ELSE IF Head(b) = Backslash THEN <<b[2]>> \o Decoded(Tail(Tail(b)))
    ELSE <<Head(b)>> \o Decoded(Tail(b))

Literal(src) ==
    /\ Len(src) >= 2
    /\ src[1] = Quote
    /\ src[Len(src)] = Quote
    /\ EscapedBody(SubSeq(src, 2, Len(src) - 1))

C18_StringEscapes ==
    (offset = Len(source) /\ Literal(source)) =>
        tokens = <<[tok |-> "String",
                    str |-> Text(Decoded(SubSeq(source, 2, Len(source) - 1))),
                    num |-> 0, line |-> 1, col |-> 1]>>

-----------------------------------------------------------------------------
(* C19: round trip.  For every well-formed source (a module header and     *)
(* signal, coil and rung declarations, guards on declared signals only,    *)
(* actions on declared coils only, signal names unique, coil names unique) *)
(* parse, resolve_names and emit_ir succeed and the IR carries the module  *)
(* name and one entry per declared signal, coil and rung with the declared *)
(* names; the IR of the demo source is module demo with signal start       *)
(* without parameters, coil motor, and rung r1 with a NO contact on start  *)
(* and one energise action on motor.                                       *)
Unique(names) ==
    \A i, j \in DOMAIN names : names[i] = names[j] => i = j
Among(name, names) == \E k \in DOMAIN names : names[k] = name

\* The sources of SpecCompile are grammatical clause by clause; this is the
\* part of well-formedness that is about names.
WellFormedSource ==
    /\ Unique(DeclaredNames("Signal"))
    /\ Unique(DeclaredNames("Coil"))
    /\ \A k \in DOMAIN Positions({"Rung"}) :
          LET i == Positions({"Rung"})[k] IN
          /\ \A c \in DOMAIN ContactsOf(i) :
                Among(tokens[ContactsOf(i)[c]].str, DeclaredNames("Signal"))
          /\ \A a \in DOMAIN ActionsOf(i) :
                Among(tokens[ActionsOf(i)[a] + 1].str, DeclaredNames("Coil"))

DemoTokens == LexAll(DemoSource, 1, 1, 1).tokens

DemoIR ==
    [version |-> "0.1.0",
     module |->
       [name |-> "demo", context |-> <<>>, intent |-> <<>>,
        constraints |-> <<>>,
        signals |-> <<<<[name |-> "start", parameters |-> <<>>,
                         type_ |-> <<>>]>>>>,
        coils |-> <<<<[name |-> "motor", parameters |-> <<>>,
                       latching |-> <<>>, critical |-> <<>>]>>>>,
        rungs |-> <<<<[name |-> "r1",
                       guard |-> [kind |-> "Contact", name |-> "start",
                                  contact_type |-> "NO",
                                  arguments |-> <<<<>>>>],
                       actions |-> <<[action_type |-> "energise",
                                      coil |-> "motor",
                                      arguments |-> <<>>]>>]>>>>,
        blocks |-> <<<<>>>>, networks |-> <<<<>>>>]]

\* The round trip of the sources that satisfy P.
RoundTripOf(P) ==
    P =>
      /\ stage = "failed" => error.kind = "Io"
      /\ ir # <<>> =>
            /\ ir[1].module.name = tokens[2].str
            /\ EmittedNames(ir[1].module.signals) = DeclaredNames("Signal")
            /\ EmittedNames(ir[1].module.coils) = DeclaredNames("Coil")
            /\ EmittedNames(ir[1].module.rungs) = DeclaredNames("Rung")

DemoRoundTrip ==
    tokens = DemoTokens =>
      /\ stage = "failed" => error.kind = "Io"
      /\ ir # <<>> => ir[1] = DemoIR

C19_RoundTrip ==
    /\ tokens # <<>> => RoundTripOf(WellFormedSource)
    /\ DemoRoundTrip

\* A contact without NO or NC that is followed by an argument list.
BareContactWithArguments ==
    \E k \in DOMAIN Positions({"Rung"}) :
        \E c \in DOMAIN ContactsOf(Positions({"Rung"})[k]) :
            LET j == ContactsOf(Positions({"Rung"})[k])[c] IN
            /\ tokens[j - 1].tok \notin {"NO", "NC"}
            /\ j < Len(tokens)
            /\ tokens[j + 1].tok = "LParen"

\* What the code does satisfy: the round trip of the well-formed sources
\* without such a contact, and of the demo source.
RoundTripOfPrefixedArguments ==
    /\ tokens # <<>> =>
          RoundTripOf(WellFormedSource /\ ~BareContactWithArguments)
    /\ DemoRoundTrip

DemoCompiled == tokens = DemoTokens /\ stage = "done" /\ written = <<DemoIR>>

-----------------------------------------------------------------------------
(* C20: parsing terminates and the cursor stays in bounds.  From every     *)
(* position of every token list, next and every parsing function return    *)
(* with a position that is not before the one they started at and not      *)
(* after the end of the list; an iteration of a parsing loop that goes     *)
(* round again has consumed at least one token, and the loop then goes on  *)
(* as the loop started at the new position; parse returns Ok or a Parse    *)
(* error, also when the list ends in the middle of a construct.            *)
InBounds(p, r) == p <= r.pos /\ r.pos <= Len(tokens)

CursorInBounds ==
    \A p \in 0 .. Len(tokens) :
        /\ InBounds(p, next(tokens, p))
        /\ InBounds(p, expect(tokens, p, "Then"))
        /\ InBounds(p, parse_expr(tokens, p))
        /\ InBounds(p, ArgList(tokens, p))
        /\ InBounds(p, parse_guard_primary(tokens, p))
        /\ InBounds(p, parse_guard_not(tokens, p))
        /\ InBounds(p, parse_guard_and(tokens, p))
        /\ InBounds(p, parse_guard(tokens, p))
        /\ InBounds(p, parse_actions(tokens, p))
        /\ InBounds(p, ParamList(tokens, p))
        /\ InBounds(p, parse_signal(tokens, p))
        /\ InBounds(p, parse_coil(tokens, p))
        /\ InBounds(p, parse_rung(tokens, p))
        /\ InBounds(p, parse_block(tokens, p))
        /\ InBounds(p, parse_network(tokens, p))
        /\ InBounds(p, parse_module(tokens, p))

\* The iteration at p of a loop, and the loop from p and from the position
\* of its next iteration.
Progress(p, it, from_p, from_next) ==
    it.again =>
        /\ p < it.pos
        /\ it.pos <= Len(tokens)
        /\ from_p.ok = from_next.ok
        /\ from_p.pos = from_next.pos

NoCoil == [name |-> "", parameters |-> <<>>, latching |-> <<>>, critical |-> <<>>]

LoopsProgress ==
    \A p \in 0 .. Len(tokens) :
        /\ LET it == ModuleLoopAgain(tokens, p) IN
           Progress(p, it, ModuleLoop(tokens, p, NoModule),
                           ModuleLoop(tokens, it.pos, NoModule))
        /\ LET it == ParamLoopAgain(tokens, p) IN
           Progress(p, it, ParamLoop(tokens, p, <<>>),
                           ParamLoop(tokens, it.pos, <<>>))
        /\ LET it == ArgLoopAgain(tokens, p) IN
           Progress(p, it, ArgLoop(tokens, p, <<>>),
                           ArgLoop(tokens, it.pos, <<>>))
        /\ LET it == OrLoopAgain(tokens, p) IN
           Progress(p, it, OrLoop(tokens, p, NoVal),
                           OrLoop(tokens, it.pos, NoVal))
        /\ LET it == AndLoopAgain(tokens, p) IN
           Progress(p, it, AndLoop(tokens, p, NoVal),
                           AndLoop(tokens, it.pos, NoVal))
        /\ LET it == ModifierLoopAgain(tokens, p) IN
           Progress(p, it, ModifierLoop(tokens, p, NoCoil),
                           ModifierLoop(tokens, it.pos, NoCoil))
        /\ LET it == ActionLoopAgain(tokens, p) IN
           Progress(p, it, ActionLoop(tokens, p, <<>>),
                           ActionLoop(tokens, it.pos, <<>>))

C20_CursorInBounds ==
    /\ pos <= Len(tokens)
    /\ stage # "lex" =>
          /\ pos = parse(tokens).pos
          /\ stage = (IF parse(tokens).ok THEN "resolve" ELSE "failed")
          /\ parse(tokens).ok \/ parse(tokens).err.kind = "Parse"
          /\ CursorInBounds
          /\ LoopsProgress

\* parse has returned an error on a list that ends inside an argument list,
\* after the argument loop and the loops of the guard went round.
C20_Witness ==
    /\ stage = "failed"
    /\ error.at = Len(tokens) + 1
    /\ pos = Len(tokens)
    /\ \E p \in 0 .. Len(tokens) : ArgLoopAgain(tokens, p).again
    /\ \E p \in 0 .. Len(tokens) : OrLoopAgain(tokens, p).again
    /\ \E p \in 0 .. Len(tokens) : AndLoopAgain(tokens, p).again
    /\ \E p \in 0 .. Len(tokens) :
          /\ peek(tokens, p).tok = "LParen"
          /\ ~ArgList(tokens, p).ok
          /\ ArgList(tokens, p).err.at = Len(tokens) + 1

-----------------------------------------------------------------------------
(* C21: the line recorded with a token counts only the newlines inside     *)
(* token text.  The line of a token is 1 plus the number of newlines in    *)
(* the text of the tokens up to and including it, whatever newlines the    *)
(* skipped whitespace and comments hold; so with no newline inside a       *)
(* string literal every token is on line 1; and the recorded lines never   *)
(* decrease along the list.                                                *)

\* The newlines in the text of a token: neither decoding an escape nor
\* dropping the quotes removes one.
NewlinesIn(t) ==
    Cardinality({i \in 1 .. Len(t.str) : SubSeq(t.str, i, i) = Newline})

RECURSIVE NewlinesUpTo(_)
NewlinesUpTo(k) ==
    IF k = 0 THEN 0 ELSE NewlinesUpTo(k - 1) + NewlinesIn(tokens[k])

C21_LineCountsTokenNewlines ==
    /\ \A k \in DOMAIN tokens : tokens[k].line = 1 + NewlinesUpTo(k)
    /\ (\A k \in DOMAIN tokens : NewlinesIn(tokens[k]) = 0) =>
          \A k \in DOMAIN tokens : tokens[k].line = 1
    /\ \A k \in 2 .. Len(tokens) : tokens[k - 1].line <= tokens[k].line
    /\ line = 1 + NewlinesUpTo(Len(tokens))

\* The lexer is through a source with a newline in skipped text and a
\* newline inside a string literal: the token after the literal is on line 2.
C21_Witness ==
    /\ offset = Len(source)
    /\ Cardinality({i \in DOMAIN source : source[i] = Newline}) = 2
    /\ Len(tokens) = 2
    /\ tokens[1].tok = "String"
    /\ tokens[1].line = 2
    /\ tokens[2].tok = "Identifier"
    /\ tokens[2].line = 2

====
